---- MODULE Spec2Model ----
(***************************************************************************)
(* A model of the UltraHDR JPEG container engine of lib-open-ultrahdr:     *)
(* the JPEG segment parser and writer (jpeg/parser.rs, jpeg/writer.rs),    *)
(* the XMP and MPF payloads (jpeg/xmp.rs, jpeg/writer.rs) and the          *)
(* container functions probe / decode / extract_base / extract_metadata /  *)
(* has_gainmap_metadata (ultrahdr/decoder.rs) and create_ultrahdr_jpeg     *)
(* (ultrahdr/encoder.rs).                                                  *)
(*                                                                         *)
(* A byte is an integer in 0..255, a buffer a sequence of bytes.  A byte   *)
(* position of the source (0-based) is kept 0-based; At(d, i) reads it.    *)
(* The library is stateless: the state of the model is the buffer handed   *)
(* to the library, the last call made on it and what that call returned.   *)
(***************************************************************************)
EXTENDS Integers, Sequences, FiniteSets, TLC

VARIABLES
    shape,    \* how the input buffer was assembled: a sequence of chunk names
    data,     \* the input buffer: the bytes of shape
    call,     \* the last library call made, with its other arguments
    ret,      \* what that call returned
    computer, \* a MetadataComputer: min_ratios, max_ratios, sample_count
    samples,  \* the samples handed to computer.add_sample so far, in order
    writer    \* a JpegWriter: segments and scan_data

vars == <<shape, data, call, ret, computer, samples, writer>>

----------------------------------------------------------------------------
(* Bytes and buffers *)

At(d, i) == d[i + 1]

\* d[from .. to) with 0-based positions, as a Rust slice
Slice(d, from, to) == SubSeq(d, from + 1, to)

starts_with(d, prefix) ==
    /\ Len(d) >= Len(prefix)
    /\ SubSeq(d, 1, Len(prefix)) = prefix

\* str::contains on byte strings
contains(d, pat) ==
    \E i \in 1..(Len(d) - Len(pat) + 1) : SubSeq(d, i, i + Len(pat) - 1) = pat

u16_from_be_bytes(hi, lo) == hi * 256 + lo

u16_to_be_bytes(v) == <<v \div 256, v % 256>>

u32_to_le_bytes(v) ==
    <<v % 256, (v \div 256) % 256, (v \div 65536) % 256, (v \div 16777216) % 256>>

u32_to_be_bytes(v) ==
    <<(v \div 16777216) % 256, (v \div 65536) % 256, (v \div 256) % 256, v % 256>>

u16_to_le_bytes(v) == <<v % 256, (v \div 256) % 256>>

u32_from_le_bytes(b0, b1, b2, b3) == b0 + b1 * 256 + b2 * 65536 + b3 * 16777216

u32_from_be_bytes(b0, b1, b2, b3) == b3 + b2 * 256 + b1 * 65536 + b0 * 16777216

u16_from_le_bytes(b0, b1) == b0 + b1 * 256

----------------------------------------------------------------------------
(* jpeg/parser.rs: MarkerType *)

Marker(tag, arg) == [tag |-> tag, arg |-> arg]

from_byte(byte) ==
    CASE byte = 216 -> Marker("Soi", 0)
      [] byte = 217 -> Marker("Eoi", 0)
      [] byte = 224 -> Marker("App0", 0)
      [] byte = 225 -> Marker("App1", 0)
      [] byte = 226 -> Marker("App2", 0)
      [] byte >= 227 /\ byte <= 239 -> Marker("AppN", byte - 224)
      [] byte = 192 -> Marker("Sof0", 0)
      [] byte = 194 -> Marker("Sof2", 0)
      [] byte = 196 -> Marker("Dht", 0)
      [] byte = 219 -> Marker("Dqt", 0)
      [] byte = 221 -> Marker("Dri", 0)
      [] byte = 218 -> Marker("Sos", 0)
      [] byte = 254 -> Marker("Com", 0)
      [] OTHER -> Marker("Other", byte)

to_byte(m) ==
    CASE m.tag = "Soi" -> 216
      [] m.tag = "Eoi" -> 217
      [] m.tag = "App0" -> 224
      [] m.tag = "App1" -> 225
      [] m.tag = "App2" -> 226
      [] m.tag = "AppN" -> 224 + m.arg
      [] m.tag = "Sof0" -> 192
      [] m.tag = "Sof2" -> 194
      [] m.tag = "Dht" -> 196
      [] m.tag = "Dqt" -> 219
      [] m.tag = "Dri" -> 221
      [] m.tag = "Sos" -> 218
      [] m.tag = "Com" -> 254
      [] OTHER -> m.arg

has_length(m) ==
    ~ \/ m.tag = "Soi"
      \/ m.tag = "Eoi"
      \/ (m.tag = "Other" /\ m.arg = 0)
      \/ (m.tag = "Other" /\ m.arg = 255)

----------------------------------------------------------------------------
(* jpeg/parser.rs: JpegSegment *)

JpegSegment(marker, payload, offset) ==
    [marker |-> marker, data |-> payload, offset |-> offset]

\* "http://ns.adobe.com/xap/1.0/\0"
XMP_NAMESPACE ==
    <<104, 116, 116, 112, 58, 47, 47, 110, 115, 46, 97, 100, 111, 98, 101, 46,
      99, 111, 109, 47, 120, 97, 112, 47, 49, 46, 48, 47, 0>>

\* "http://ns.adobe.com/xmp/extension/\0"
EXT_XMP_NAMESPACE ==
    <<104, 116, 116, 112, 58, 47, 47, 110, 115, 46, 97, 100, 111, 98, 101, 46,
      99, 111, 109, 47, 120, 109, 112, 47, 101, 120, 116, 101, 110, 115, 105,
      111, 110, 47, 0>>

\* "Exif\0\0"
EXIF_HEADER == <<69, 120, 105, 102, 0, 0>>

\* "MPF\0"
MPF_HEADER == <<77, 80, 70, 0>>

is_xmp(s) == s.marker.tag = "App1" /\ starts_with(s.data, XMP_NAMESPACE)

is_extended_xmp(s) == s.marker.tag = "App1" /\ starts_with(s.data, EXT_XMP_NAMESPACE)

is_exif(s) == s.marker.tag = "App1" /\ starts_with(s.data, EXIF_HEADER)

is_mpf(s) == s.marker.tag = "App2" /\ starts_with(s.data, MPF_HEADER)

\* Some(&data[29..]) of an XMP segment
get_xmp_data(s) == SubSeq(s.data, 30, Len(s.data))

----------------------------------------------------------------------------
(* jpeg/parser.rs: JpegParser::parse *)

\* A result of the library: st is "ok", "err" (with its kind in err) or
\* "panic" (the call does not return); val is the value of an "ok".
Ok(v) == [st |-> "ok", err |-> "none", val |-> v]
Err(kind) == [st |-> "err", err |-> kind, val |-> <<>>]
Panic == [st |-> "panic", err |-> "none", val |-> <<>>]

\* The inner loop that skips 0xFF padding: c is the cursor after the first
\* 0xFF.  A read at the end of the buffer fails and leaves 0xFF in marker_byte.
RECURSIVE SkipPadding(_, _)
SkipPadding(d, c) ==
    IF c >= Len(d) THEN [mb |-> 255, cur |-> Len(d)]
    ELSE IF At(d, c) # 255 THEN [mb |-> At(d, c), cur |-> c + 1]
    ELSE SkipPadding(d, c + 1)

\* One iteration of the scan loop (while in_scan && cursor < len)
ScanIter(d, p) ==
    LET b == At(d, p.cur) IN
    IF b # 255 THEN
        [p EXCEPT !.cur = @ + 1, !.scan_data = Append(@, b)]
    ELSE IF p.cur + 1 >= Len(d) THEN
        \* the second read fails: break (the lone 0xFF is dropped)
        [p EXCEPT !.cur = Len(d)]
    ELSE
        LET n == At(d, p.cur + 1)
            c == p.cur + 2
        IN  IF n = 0 THEN
                [p EXCEPT !.cur = c, !.scan_data = @ \o <<255, 0>>]
            ELSE IF n = 217 THEN
                [p EXCEPT !.cur = c,
                          !.segments = Append(@, JpegSegment(Marker("Eoi", 0), <<>>, c - 2)),
                          !.in_scan = FALSE]
            ELSE IF n >= 208 /\ n <= 215 THEN
                [p EXCEPT !.cur = c, !.scan_data = @ \o <<255, n>>]
            ELSE
                \* another marker: back up
                [p EXCEPT !.cur = c - 2, !.in_scan = FALSE]

RECURSIVE ScanLoop(_, _)
ScanLoop(d, p) ==
    IF p.in_scan /\ p.cur < Len(d) THEN ScanLoop(d, ScanIter(d, p)) ELSE p

\* The SOS arm: length, header, then the entropy-coded data.  len - 2 is a
\* usize subtraction made without a check: for len < 2 it overflows (a panic
\* in a debug build, and in a release build a request for about 2^64 bytes,
\* which panics with a capacity overflow).
ParseSos(d, p, pos, c) ==
    IF c + 2 > Len(d) THEN [p EXCEPT !.st = "err", !.err = "IoError"]
    ELSE
        LET len == u16_from_be_bytes(At(d, c), At(d, c + 1)) IN
        IF len < 2 THEN [p EXCEPT !.st = "panic"]
        ELSE IF c + 2 + (len - 2) > Len(d) THEN [p EXCEPT !.st = "err", !.err = "IoError"]
        ELSE
            LET after == c + 2 + (len - 2)
                seg == JpegSegment(Marker("Sos", 0), Slice(d, c + 2, after), pos)
                q == ScanLoop(d, [p EXCEPT !.cur = after,
                                           !.segments = Append(@, seg),
                                           !.scan_offset = after,
                                           !.in_scan = TRUE])
            IN  [q EXCEPT !.in_scan = FALSE]

\* The arm of every other marker that has a length field
ParseLengthSegment(d, p, marker, pos, c) ==
    IF c + 2 > Len(d) THEN [p EXCEPT !.st = "err", !.err = "IoError"]
    ELSE
        LET len == u16_from_be_bytes(At(d, c), At(d, c + 1)) IN
        IF len < 2 THEN [p EXCEPT !.st = "err", !.err = "InvalidJpeg"]
        ELSE IF c + 2 + (len - 2) > Len(d) THEN [p EXCEPT !.st = "err", !.err = "IoError"]
        ELSE [p EXCEPT !.cur = c + 2 + (len - 2),
                       !.segments = Append(@, JpegSegment(marker, Slice(d, c + 2, c + len), pos))]

\* One iteration of the outer loop of parse
ParseIter(d, p) ==
    LET pos == p.cur IN
    IF pos >= Len(d) THEN [p EXCEPT !.st = "ok"]
    ELSE IF At(d, pos) # 255 THEN [p EXCEPT !.cur = pos + 1]
    ELSE
        LET pad == SkipPadding(d, pos + 1)
            marker == from_byte(pad.mb)
            c == pad.cur
        IN  CASE marker.tag = "Eoi" ->
                    [p EXCEPT !.cur = c,
                              !.segments = Append(@, JpegSegment(marker, <<>>, c - 2)),
                              !.st = "ok"]
              [] marker.tag = "Soi" -> [p EXCEPT !.cur = c]
              [] marker.tag = "Sos" -> ParseSos(d, p, pos, c)
              [] OTHER ->
                    IF has_length(marker) THEN ParseLengthSegment(d, p, marker, pos, c)
                    ELSE [p EXCEPT !.cur = c,
                                   !.segments = Append(@, JpegSegment(marker, <<>>, pos))]

RECURSIVE ParseLoop(_, _)
ParseLoop(d, p) ==
    IF p.st = "run" THEN ParseLoop(d, ParseIter(d, p)) ELSE p

\* The state of parse when it enters its loop: SOI pushed, cursor at 2
ParseStart ==
    [cur |-> 2,
     segments |-> <<JpegSegment(Marker("Soi", 0), <<>>, 0)>>,
     scan_data |-> <<>>,
     scan_offset |-> 0,
     in_scan |-> FALSE,
     st |-> "run",
     err |-> "none"]

\* What parse returns when its loop has ended in p.  The value of an Ok is
\* the parser: segments, scan_data and scan_offset.
ParserOf(p) ==
    CASE p.st = "ok" -> Ok([segments |-> p.segments,
                            scan_data |-> p.scan_data,
                            scan_offset |-> p.scan_offset])
      [] p.st = "err" -> Err(p.err)
      [] OTHER -> Panic

\* parse that looks at the first byte of the magic only
Parse_FirstByteOnly(d) ==
    IF Len(d) < 2 THEN Err("InvalidJpeg")
    ELSE IF d[1] # 255 THEN Err("InvalidJpeg")
    ELSE ParserOf(ParseLoop(d, ParseStart))

\* JpegParser::parse
Parse(d) ==
    IF Len(d) < 2 THEN Err("InvalidJpeg")
    ELSE IF d[1] # 255 \/ d[2] # 216 THEN Err("InvalidJpeg")
    ELSE ParserOf(ParseLoop(d, ParseStart))

----------------------------------------------------------------------------
(* jpeg/parser.rs: segment queries.  An Option is a record with a some flag. *)

None == [some |-> FALSE, val |-> <<>>]
Some(v) == [some |-> TRUE, val |-> v]

\* the least index of a set of indices, 0 when it is empty
FirstIndex(S) ==
    IF S = {} THEN 0 ELSE CHOOSE i \in S : \A j \in S : i <= j

find_xmp_segment(parser) ==
    LET i == FirstIndex({k \in 1..Len(parser.segments) : is_xmp(parser.segments[k])}) IN
    IF i = 0 THEN None ELSE Some(parser.segments[i])

find_mpf_segment(parser) ==
    LET i == FirstIndex({k \in 1..Len(parser.segments) : is_mpf(parser.segments[k])}) IN
    IF i = 0 THEN None ELSE Some(parser.segments[i])

is_sof(s) == s.marker.tag = "Sof0" \/ s.marker.tag = "Sof2"

find_sof_segment(parser) ==
    LET i == FirstIndex({k \in 1..Len(parser.segments) : is_sof(parser.segments[k])}) IN
    IF i = 0 THEN None ELSE Some(parser.segments[i])

\* Some((width, height)) from the first SOF segment
get_dimensions(parser) ==
    LET sof == find_sof_segment(parser) IN
    IF ~sof.some THEN None
    ELSE IF Len(sof.val.data) < 5 THEN None
    ELSE Some([width |-> u16_from_be_bytes(At(sof.val.data, 3), At(sof.val.data, 4)),
               height |-> u16_from_be_bytes(At(sof.val.data, 1), At(sof.val.data, 2))])

----------------------------------------------------------------------------
(* jpeg/writer.rs: create_mpf_data *)

create_mpf_data(gain_map_offset, gain_map_size) ==
    MPF_HEADER
    \o <<73, 73>>                          \* "II"
    \o <<42, 0>>                           \* 0x002A
    \o u32_to_le_bytes(8)                  \* offset of the first IFD
    \o u16_to_le_bytes(3)                  \* three entries
    \o u16_to_le_bytes(45056) \o u16_to_le_bytes(7) \o u32_to_le_bytes(4)
    \o <<48, 49, 48, 48>>                  \* 0xB000 MPFVersion "0100"
    \o u16_to_le_bytes(45057) \o u32_to_le_bytes(4) \o u32_to_le_bytes(1)
    \o u32_to_le_bytes(2)                  \* 0xB001 NumberOfImages, type written as u32
    \o u16_to_le_bytes(45058) \o u16_to_le_bytes(7) \o u32_to_le_bytes(32)
    \o u32_to_le_bytes(8 + 2 + (3 * 12) + 4)   \* 0xB002 MPEntry
    \o u32_to_le_bytes(0)                  \* next IFD
    \o u32_to_le_bytes(537067520) \o u32_to_le_bytes(0) \o u32_to_le_bytes(0)
    \o u16_to_le_bytes(0) \o u16_to_le_bytes(0)
    \o u32_to_le_bytes(196608) \o u32_to_le_bytes(gain_map_size)
    \o u32_to_le_bytes(gain_map_offset)
    \o u16_to_le_bytes(0) \o u16_to_le_bytes(0)

----------------------------------------------------------------------------
(* jpeg/writer.rs: JpegWriter *)

JpegWriter(segments, scan_data) == [segments |-> segments, scan_data |-> scan_data]

\* JpegWriter::empty
JpegWriter_empty == JpegWriter(<<>>, <<>>)

\* Vec::insert(index, x): index is at most the length
InsertAt(s, index, x) == SubSeq(s, 1, index) \o <<x>> \o SubSeq(s, index + 1, Len(s))

\* find_xmp_insert_position that always answers the end of the list
find_xmp_insert_position_AtEnd(w) == Len(w.segments)

find_xmp_insert_position(w) ==
    LET skipped(s) == s.marker.tag = "Soi" \/ s.marker.tag = "App0" \/ is_exif(s)
        stop(s) == ~skipped(s)
        i == FirstIndex({k \in 1..Len(w.segments) : stop(w.segments[k])})
    IN  IF i = 0 THEN Len(w.segments) ELSE i - 1

find_mpf_insert_position(w) ==
    LET app1 == {i \in 1..Len(w.segments) : w.segments[i].marker.tag = "App1"}
        is_app0(s) == s.marker.tag = "App0"
        app0 == FirstIndex({k \in 1..Len(w.segments) : is_app0(w.segments[k])})
    IN  IF app1 # {} THEN CHOOSE i \in app1 : \A j \in app1 : j <= i
        ELSE IF app0 # 0 THEN app0
        ELSE 1

\* add_xmp_segment: Ok(writer) or the XmpError of an oversized packet
add_xmp_segment(w, xmp_data) ==
    IF Len(xmp_data) + Len(XMP_NAMESPACE) > 65533 THEN Err("XmpError")
    ELSE Ok([w EXCEPT !.segments =
                InsertAt(@, find_xmp_insert_position(w),
                         JpegSegment(Marker("App1", 0), XMP_NAMESPACE \o xmp_data, 0))])

\* add_mpf_segment: Vec::insert panics on an index beyond the length
add_mpf_segment(w, gain_map_offset, gain_map_size) ==
    LET insert_pos == find_mpf_insert_position(w) IN
    IF insert_pos > Len(w.segments) THEN Panic
    ELSE Ok([w EXCEPT !.segments =
                InsertAt(@, insert_pos,
                         JpegSegment(Marker("App2", 0),
                                     create_mpf_data(gain_map_offset, gain_map_size), 0))])

\* add_segment: Vec::push
add_segment(w, segment) == [w EXCEPT !.segments = Append(@, segment)]

\* insert_segment: Vec::insert panics on an index beyond the length
insert_segment(w, index, segment) ==
    IF index > Len(w.segments) THEN Panic
    ELSE Ok([w EXCEPT !.segments = InsertAt(@, index, segment)])

find_extended_xmp_insert_position(w) ==
    LET i == FirstIndex({k \in 1..Len(w.segments) : is_xmp(w.segments[k])})
    IN  IF i # 0 THEN i ELSE find_xmp_insert_position(w)

\* add_extended_xmp_segment: namespace, digest, total length and offset
\* (big-endian), then the data; there is no test of the size.  The position
\* is at most the length, so the insertion cannot fail.
add_extended_xmp_segment(w, xmp_data, md5_digest, offset, total_length) ==
    LET payload == EXT_XMP_NAMESPACE \o md5_digest
                   \o u32_to_be_bytes(total_length) \o u32_to_be_bytes(offset)
                   \o xmp_data
    IN  Ok([w EXCEPT !.segments =
                InsertAt(@, find_extended_xmp_insert_position(w),
                         JpegSegment(Marker("App1", 0), payload, 0))])

remove_xmp_segments(w) ==
    LET keep(s) == ~is_xmp(s) /\ ~is_extended_xmp(s) IN
    [w EXCEPT !.segments = SelectSeq(@, keep)]

remove_mpf_segments(w) ==
    LET keep(s) == ~is_mpf(s) IN
    [w EXCEPT !.segments = SelectSeq(@, keep)]

\* WriteSegment with the scan bytes forgotten after the SOS header
WriteSegment_NoScan(s, scan_data) ==
    CASE s.marker.tag = "Soi" \/ s.marker.tag = "Eoi" -> <<>>
      [] OTHER ->
            IF has_length(s.marker)
            THEN <<255, to_byte(s.marker)>> \o u16_to_be_bytes((Len(s.data) + 2) % 65536)
                 \o s.data
            ELSE <<255, to_byte(s.marker)>>

\* the bytes write() emits for one segment
WriteSegment(s, scan_data) ==
    CASE s.marker.tag = "Soi" \/ s.marker.tag = "Eoi" -> <<>>
      [] s.marker.tag = "Sos" ->
            <<255, to_byte(s.marker)>> \o u16_to_be_bytes((Len(s.data) + 2) % 65536)
            \o s.data \o scan_data
      [] OTHER ->
            IF has_length(s.marker)
            THEN <<255, to_byte(s.marker)>> \o u16_to_be_bytes((Len(s.data) + 2) % 65536)
                 \o s.data
            ELSE <<255, to_byte(s.marker)>>

RECURSIVE WriteSegments(_, _)
WriteSegments(segs, scan_data) ==
    IF segs = <<>> THEN <<>>
    ELSE WriteSegment(Head(segs), scan_data) \o WriteSegments(Tail(segs), scan_data)

\* JpegWriter::write
write(w) == <<255, 216>> \o WriteSegments(w.segments, w.scan_data) \o <<255, 217>>

\* write_with_gain_map that returns the primary image alone
write_with_gain_map_Bare(w, gain_map_jpeg) == write(w)

\* JpegWriter::write_with_gain_map
write_with_gain_map(w, gain_map_jpeg) == write(w) \o gain_map_jpeg

----------------------------------------------------------------------------
(* types.rs: GainMapMetadata.  An f32 of the metadata is kept in fixed point, *)
(* as an integer number of units of 1e-7: one decimal more than the six the  *)
(* writer prints.                                                            *)

GainMapMetadata_default ==
    [version |-> <<49, 46, 48>>,
     base_rendition_is_hdr |-> FALSE,
     gain_map_min |-> <<0, 0, 0>>,
     gain_map_max |-> <<30000000, 30000000, 30000000>>,
     gamma |-> <<10000000, 10000000, 10000000>>,
     offset_sdr |-> <<156250, 156250, 156250>>,
     offset_hdr |-> <<156250, 156250, 156250>>,
     hdr_capacity_min |-> 0,
     hdr_capacity_max |-> 30000000]

----------------------------------------------------------------------------
(* f32 values.  A finite f32 is its value in units of 1e-7; the values that  *)
(* are no finite number, and the two sentinels of MetadataComputer::new,    *)
(* are integers outside the finite range of the model.                      *)

F32 ==
    [NAN |-> 2100000000, INFINITY |-> 2000000000, NEG_INFINITY |-> -2000000000,
     MAX |-> 1999999999, MIN |-> -1999999999]

is_nan(x) == x = F32.NAN

is_finite(x) == x # F32.NAN /\ x # F32.INFINITY /\ x # F32.NEG_INFINITY

\* the comparisons of f32: every comparison with NaN is false
f32_gt(a, b) == ~is_nan(a) /\ ~is_nan(b) /\ a > b

f32_le(a, b) == ~is_nan(a) /\ ~is_nan(b) /\ a <= b

f32_lt(a, b) == ~is_nan(a) /\ ~is_nan(b) /\ a < b

\* f32::min and f32::max: the other operand when one is NaN
f32_min(a, b) == IF is_nan(a) THEN b ELSE IF is_nan(b) THEN a ELSE IF a < b THEN a ELSE b

f32_max(a, b) == IF is_nan(a) THEN b ELSE IF is_nan(b) THEN a ELSE IF a > b THEN a ELSE b

\* a == b on f32: NaN equals nothing
f32_eq(a, b) == ~is_nan(a) /\ ~is_nan(b) /\ a = b

\* a == b on Vec<f32>
vec_eq(a, b) == Len(a) = Len(b) /\ \A i \in 1..Len(a) : f32_eq(a[i], b[i])

\* a == b on GainMapMetadata, the derived PartialEq: field by field
GainMapMetadata_eq(a, b) ==
    /\ a.version = b.version
    /\ a.base_rendition_is_hdr = b.base_rendition_is_hdr
    /\ vec_eq(a.gain_map_min, b.gain_map_min)
    /\ vec_eq(a.gain_map_max, b.gain_map_max)
    /\ vec_eq(a.gamma, b.gamma)
    /\ vec_eq(a.offset_sdr, b.offset_sdr)
    /\ vec_eq(a.offset_hdr, b.offset_hdr)
    /\ f32_eq(a.hdr_capacity_min, b.hdr_capacity_min)
    /\ f32_eq(a.hdr_capacity_max, b.hdr_capacity_max)

----------------------------------------------------------------------------
(* gainmap/metadata.rs: validate_metadata *)

\* for i in 0..3 { if gain_map_min[i] > gain_map_max[i] ... }: an index at or
\* beyond the length of either array panics
RECURSIVE GainRangeLoop(_, _)
GainRangeLoop(metadata, i) ==
    IF i = 3 THEN Ok(<<>>)
    ELSE IF i >= Len(metadata.gain_map_min) \/ i >= Len(metadata.gain_map_max)
         THEN Panic
    ELSE IF f32_gt(At(metadata.gain_map_min, i), At(metadata.gain_map_max, i))
         THEN Err("MetadataError")
    ELSE GainRangeLoop(metadata, i + 1)

\* validate_metadata after the five length tests
ValidateValues(metadata, range) ==
    IF range.st # "ok" THEN range
    ELSE IF \E i \in 1..Len(metadata.gamma) : f32_le(metadata.gamma[i], 0)
         THEN Err("MetadataError")
    ELSE IF f32_gt(metadata.hdr_capacity_min, metadata.hdr_capacity_max)
         THEN Err("InvalidHdrCapacity")
    ELSE Ok(<<>>)

\* validate_metadata
validate_metadata(metadata) ==
    IF Len(metadata.gain_map_min) # 3 THEN Err("MetadataError")
    ELSE IF Len(metadata.gain_map_max) # 3 THEN Err("MetadataError")
    ELSE IF Len(metadata.gamma) # 3 THEN Err("MetadataError")
    ELSE IF Len(metadata.offset_sdr) # 3 THEN Err("MetadataError")
    ELSE IF Len(metadata.offset_hdr) # 3 THEN Err("MetadataError")
    ELSE ValidateValues(metadata, GainRangeLoop(metadata, 0))

----------------------------------------------------------------------------
(* gainmap/metadata.rs: MetadataComputer *)

\* EPSILON = 1e-6, in units of 1e-7
EPSILON == 10

\* log2(1e6) in units of 1e-7
LOG2_MILLION == 199315686

\* a + b in f32: NaN spreads, the infinities absorb, unlike infinities give NaN
f32_add(a, b) ==
    IF is_nan(a) \/ is_nan(b) THEN F32.NAN
    ELSE IF ~is_finite(a) /\ ~is_finite(b) THEN (IF a = b THEN a ELSE F32.NAN)
    ELSE IF ~is_finite(a) THEN a
    ELSE IF ~is_finite(b) THEN b
    ELSE a + b

\* num / den is a power of two with an exponent within 0..40 either way
RECURSIVE IsPow2Ratio(_, _, _)
IsPow2Ratio(num, den, n) ==
    \/ num = den
    \/ n > 0 /\ num > den /\ den <= 500000000 /\ IsPow2Ratio(num, 2 * den, n - 1)
    \/ n > 0 /\ num < den /\ num <= 500000000 /\ IsPow2Ratio(2 * num, den, n - 1)

\* log2(num / den) in units of 1e-7, for a ratio that is a power of two
RECURSIVE log2_pow2(_, _)
log2_pow2(num, den) ==
    IF num = den THEN 0
    ELSE IF num > den THEN 10000000 + log2_pow2(num, 2 * den)
    ELSE log2_pow2(2 * num, den) - 10000000

\* (hdr + offset_hdr) / (sdr + offset_sdr).max(EPSILON) as the pair
\* <<numerator, denominator>> of finite values, or the f32 that is none:
\* x / inf is 0 or NaN, inf / x is an infinity, NaN / x is NaN
GainRatio(sdr, hdr, offset_sdr, offset_hdr) ==
    LET num == f32_add(hdr, offset_hdr)
        den == f32_max(f32_add(sdr, offset_sdr), EPSILON)
    IN  IF is_nan(num) THEN [kind |-> "nan"]
        ELSE IF den = F32.INFINITY
             THEN (IF is_finite(num) THEN [kind |-> "zero"] ELSE [kind |-> "nan"])
        ELSE IF num = F32.INFINITY THEN [kind |-> "inf"]
        ELSE IF num = F32.NEG_INFINITY THEN [kind |-> "neg_inf"]
        ELSE IF num = 0 THEN [kind |-> "zero"]
        ELSE IF num < 0 THEN [kind |-> "negative"]
        ELSE [kind |-> "positive", num |-> num, den |-> den]

\* ratio > 0.0 && ratio.is_finite()
RatioAccepted(ratio) == ratio.kind = "positive"

\* ratio.log2() in units of 1e-7; a division by EPSILON = 1e-6 is a
\* multiplication of the numerator by 1e6, a shift by log2(1e6)
RatioLog2(ratio) ==
    IF ratio.den = EPSILON THEN log2_pow2(ratio.num, 10000000) + LOG2_MILLION
    ELSE log2_pow2(ratio.num, ratio.den)

\* MetadataComputer::new
MetadataComputer_new ==
    [min_ratios |-> <<F32.MAX, F32.MAX, F32.MAX>>,
     max_ratios |-> <<F32.MIN, F32.MIN, F32.MIN>>,
     sample_count |-> 0]

\* the body of the loop of add_sample for channel i (1-based), on bounds b
AddChannel(b, ratio, min_or_max) ==
    IF ~RatioAccepted(ratio) THEN b
    ELSE IF min_or_max = "min" THEN f32_min(b, RatioLog2(ratio))
    ELSE f32_max(b, RatioLog2(ratio))

\* MetadataComputer::add_sample
add_sample(self, sdr, hdr, offset_sdr, offset_hdr) ==
    [min_ratios |->
        [i \in 1..3 |-> AddChannel(self.min_ratios[i],
                                   GainRatio(sdr[i], hdr[i], offset_sdr, offset_hdr), "min")],
     max_ratios |->
        [i \in 1..3 |-> AddChannel(self.max_ratios[i],
                                   GainRatio(sdr[i], hdr[i], offset_sdr, offset_hdr), "max")],
     sample_count |-> self.sample_count + 1]

\* a compute that adds the margins and leaves out the two clamps
compute_Unclamped(self, target_capacity) ==
    [version |-> <<49, 46, 48>>,
     base_rendition_is_hdr |-> FALSE,
     gain_map_min |->
        [i \in 1..3 |-> IF f32_lt(self.min_ratios[i], F32.MAX)
                        THEN f32_add(self.min_ratios[i], -1000000)
                        ELSE 0],
     gain_map_max |->
        [i \in 1..3 |-> IF f32_gt(self.max_ratios[i], F32.MIN)
                        THEN f32_add(self.max_ratios[i], 1000000)
                        ELSE target_capacity],
     gamma |-> <<10000000, 10000000, 10000000>>,
     offset_sdr |-> <<156250, 156250, 156250>>,
     offset_hdr |-> <<156250, 156250, 156250>>,
     hdr_capacity_min |-> 0,
     hdr_capacity_max |-> target_capacity]

\* MetadataComputer::compute
compute(self, target_capacity) ==
    [version |-> <<49, 46, 48>>,
     base_rendition_is_hdr |-> FALSE,
     gain_map_min |->
        [i \in 1..3 |-> IF f32_lt(self.min_ratios[i], F32.MAX)
                        THEN f32_max(f32_add(self.min_ratios[i], -1000000), -20000000)
                        ELSE 0],
     gain_map_max |->
        [i \in 1..3 |-> IF f32_gt(self.max_ratios[i], F32.MIN)
                        THEN f32_min(f32_add(self.max_ratios[i], 1000000),
                                     f32_add(target_capacity, 10000000))
                        ELSE target_capacity],
     gamma |-> <<10000000, 10000000, 10000000>>,
     offset_sdr |-> <<156250, 156250, 156250>>,
     offset_hdr |-> <<156250, 156250, 156250>>,
     hdr_capacity_min |-> 0,
     hdr_capacity_max |-> target_capacity]

----------------------------------------------------------------------------
(* jpeg/xmp.rs: the text of the XMP packet, as bytes *)

\* http://ns.adobe.com/hdr-gain-map/1.0/
HDRGM_NAMESPACE ==
    <<104, 116, 116, 112, 58, 47, 47, 110, 115, 46, 97, 100, 111, 98, 101,
      46, 99, 111, 109, 47, 104, 100, 114, 45, 103, 97, 105, 110, 45, 109,
      97, 112, 47, 49, 46, 48, 47>>

\* hdrgm:
HDRGM_COLON ==
    <<104, 100, 114, 103, 109, 58>>

\* http://ns.google.com/photos/1.0/container/
CONTAINER_NAMESPACE ==
    <<104, 116, 116, 112, 58, 47, 47, 110, 115, 46, 103, 111, 111, 103, 108,
      101, 46, 99, 111, 109, 47, 112, 104, 111, 116, 111, 115, 47, 49, 46,
      48, 47, 99, 111, 110, 116, 97, 105, 110, 101, 114, 47>>

\* http://ns.google.com/photos/1.0/container/item/
CONTAINER_ITEM_NAMESPACE ==
    <<104, 116, 116, 112, 58, 47, 47, 110, 115, 46, 103, 111, 111, 103, 108,
      101, 46, 99, 111, 109, 47, 112, 104, 111, 116, 111, 115, 47, 49, 46,
      48, 47, 99, 111, 110, 116, 97, 105, 110, 101, 114, 47, 105, 116, 101,
      109, 47>>

\* the tags and attribute names the writers emit, as quick_xml prints them
XmpTag ==
    [
     \* <?xml version="1.0" encoding="UTF-8"?>
     XML_DECL |->
        <<60, 63, 120, 109, 108, 32, 118, 101, 114, 115, 105, 111, 110, 61, 34,
          49, 46, 48, 34, 32, 101, 110, 99, 111, 100, 105, 110, 103, 61, 34, 85,
          84, 70, 45, 56, 34, 63, 62>>,
     \* <x:xmpmeta xmlns:x="adobe:ns:meta/">
     XMPMETA_START |->
        <<60, 120, 58, 120, 109, 112, 109, 101, 116, 97, 32, 120, 109, 108, 110,
          115, 58, 120, 61, 34, 97, 100, 111, 98, 101, 58, 110, 115, 58, 109,
          101, 116, 97, 47, 34, 62>>,
     \* <rdf:RDF xmlns:rdf="http://www.w3.org/1999/02/22-rdf-syntax-ns#"
     RDF_START_HEAD |->
        <<60, 114, 100, 102, 58, 82, 68, 70, 32, 120, 109, 108, 110, 115, 58,
          114, 100, 102, 61, 34, 104, 116, 116, 112, 58, 47, 47, 119, 119, 119,
          46, 119, 51, 46, 111, 114, 103, 47, 49, 57, 57, 57, 47, 48, 50, 47, 50,
          50, 45, 114, 100, 102, 45, 115, 121, 110, 116, 97, 120, 45, 110, 115,
          35, 34>>,
     \* xmlns:hdrgm
     XMLNS_HDRGM |->
        <<120, 109, 108, 110, 115, 58, 104, 100, 114, 103, 109>>,
     \* xmlns:Container
     XMLNS_CONTAINER |->
        <<120, 109, 108, 110, 115, 58, 67, 111, 110, 116, 97, 105, 110, 101, 114>>,
     \* xmlns:Item
     XMLNS_ITEM |->
        <<120, 109, 108, 110, 115, 58, 73, 116, 101, 109>>,
     \* <rdf:Description rdf:about=""
     DESCRIPTION_HEAD |->
        <<60, 114, 100, 102, 58, 68, 101, 115, 99, 114, 105, 112, 116, 105, 111,
          110, 32, 114, 100, 102, 58, 97, 98, 111, 117, 116, 61, 34, 34>>,
     \* </rdf:RDF></x:xmpmeta>
     CLOSE_RDF_XMPMETA |->
        <<60, 47, 114, 100, 102, 58, 82, 68, 70, 62, 60, 47, 120, 58, 120, 109,
          112, 109, 101, 116, 97, 62>>,
     \* </rdf:Description>
     CLOSE_DESCRIPTION |->
        <<60, 47, 114, 100, 102, 58, 68, 101, 115, 99, 114, 105, 112, 116, 105,
          111, 110, 62>>,
     \* <Container:Directory><rdf:Seq>
     DIRECTORY_START |->
        <<60, 67, 111, 110, 116, 97, 105, 110, 101, 114, 58, 68, 105, 114, 101,
          99, 116, 111, 114, 121, 62, 60, 114, 100, 102, 58, 83, 101, 113, 62>>,
     \* </rdf:Seq></Container:Directory>
     DIRECTORY_END |->
        <<60, 47, 114, 100, 102, 58, 83, 101, 113, 62, 60, 47, 67, 111, 110, 116,
          97, 105, 110, 101, 114, 58, 68, 105, 114, 101, 99, 116, 111, 114, 121,
          62>>,
     \* <rdf:li>
     LI_START |->
        <<60, 114, 100, 102, 58, 108, 105, 62>>,
     \* </rdf:li>
     LI_END |->
        <<60, 47, 114, 100, 102, 58, 108, 105, 62>>,
     \* <Container:Item
     ITEM_HEAD |->
        <<60, 67, 111, 110, 116, 97, 105, 110, 101, 114, 58, 73, 116, 101, 109>>,
     \* Item:Semantic
     ITEM_SEMANTIC |->
        <<73, 116, 101, 109, 58, 83, 101, 109, 97, 110, 116, 105, 99>>,
     \* Item:Mime
     ITEM_MIME |->
        <<73, 116, 101, 109, 58, 77, 105, 109, 101>>
    ]

\* the local names of the hdrgm attributes
AttributeName ==
    [
     \* Version
     Version |->
        <<86, 101, 114, 115, 105, 111, 110>>,
     \* BaseRenditionIsHDR
     BaseRenditionIsHDR |->
        <<66, 97, 115, 101, 82, 101, 110, 100, 105, 116, 105, 111, 110, 73, 115,
          72, 68, 82>>,
     \* GainMapMin
     GainMapMin |->
        <<71, 97, 105, 110, 77, 97, 112, 77, 105, 110>>,
     \* GainMapMax
     GainMapMax |->
        <<71, 97, 105, 110, 77, 97, 112, 77, 97, 120>>,
     \* Gamma
     Gamma |->
        <<71, 97, 109, 109, 97>>,
     \* OffsetSDR
     OffsetSDR |->
        <<79, 102, 102, 115, 101, 116, 83, 68, 82>>,
     \* OffsetHDR
     OffsetHDR |->
        <<79, 102, 102, 115, 101, 116, 72, 68, 82>>,
     \* HDRCapacityMin
     HDRCapacityMin |->
        <<72, 68, 82, 67, 97, 112, 97, 99, 105, 116, 121, 77, 105, 110>>,
     \* HDRCapacityMax
     HDRCapacityMax |->
        <<72, 68, 82, 67, 97, 112, 97, 99, 105, 116, 121, 77, 97, 120>>
    ]

\* the attribute values that are fixed text
XmpValue ==
    [
     \* Primary
     Primary |->
        <<80, 114, 105, 109, 97, 114, 121>>,
     \* GainMap
     GainMap |->
        <<71, 97, 105, 110, 77, 97, 112>>,
     \* image/jpeg
     image_jpeg |->
        <<105, 109, 97, 103, 101, 47, 106, 112, 101, 103>>,
     \* True
     True |->
        <<84, 114, 117, 101>>,
     \* False
     False |->
        <<70, 97, 108, 115, 101>>,
     \* true
     true |->
        <<116, 114, 117, 101>>
    ]

\* <x:xmpmeta></x:xmpmeta>
PLAIN_XMP_PACKET ==
    <<60, 120, 58, 120, 109, 112, 109, 101, 116, 97, 62, 60, 47, 120, 58,
      120, 109, 112, 109, 101, 116, 97, 62>>

----------------------------------------------------------------------------
(* jpeg/xmp.rs: XmpWriter *)

RECURSIVE Digits(_)
Digits(n) == IF n < 10 THEN <<48 + n>> ELSE Digits(n \div 10) \o <<48 + (n % 10)>>

\* format!("{:.6}", v): six decimals, the seventh rounded half to even; the
\* values that are no finite number print as NaN, inf and -inf
format6(v) ==
    IF is_nan(v) THEN <<78, 97, 78>>
    ELSE IF v = F32.INFINITY THEN <<105, 110, 102>>
    ELSE IF v = F32.NEG_INFINITY THEN <<45, 105, 110, 102>>
    ELSE
        LET a == IF v < 0 THEN -v ELSE v
            q == a \div 10
            r == a % 10
            m == IF r > 5 \/ (r = 5 /\ q % 2 = 1) THEN q + 1 ELSE q
            f == m % 1000000
        IN  (IF v < 0 THEN <<45>> ELSE <<>>)
            \o Digits(m \div 1000000) \o <<46>>
            \o <<48 + ((f \div 100000) % 10), 48 + ((f \div 10000) % 10),
                 48 + ((f \div 1000) % 10), 48 + ((f \div 100) % 10),
                 48 + ((f \div 10) % 10), 48 + (f % 10)>>

RECURSIVE JoinCommaSpace(_)
JoinCommaSpace(parts) ==
    IF parts = <<>> THEN <<>>
    ELSE IF Len(parts) = 1 THEN parts[1]
    ELSE parts[1] \o <<44, 32>> \o JoinCommaSpace(Tail(parts))

format_float_array(values) ==
    IF Len(values) = 3 /\ values[1] = values[2] /\ values[2] = values[3]
    THEN format6(values[1])
    ELSE JoinCommaSpace([i \in 1..Len(values) |-> format6(values[i])])

\* quick_xml's escape, applied to the value of an attribute built from a
\* pair of strings: & < > ' " become &amp; &lt; &gt; &apos; &quot;
RECURSIVE EscapeEach(_)
EscapeEach(t) ==
    IF t = <<>> THEN <<>>
    ELSE (CASE t[1] = 38 -> <<38, 97, 109, 112, 59>>
            [] t[1] = 60 -> <<38, 108, 116, 59>>
            [] t[1] = 62 -> <<38, 103, 116, 59>>
            [] t[1] = 39 -> <<38, 97, 112, 111, 115, 59>>
            [] t[1] = 34 -> <<38, 113, 117, 111, 116, 59>>
            [] OTHER -> <<t[1]>>) \o EscapeEach(Tail(t))

\* a text without any of the five characters is left as it is
escape(t) ==
    IF \A i \in 1..Len(t) : t[i] \notin {38, 60, 62, 39, 34} THEN t ELSE EscapeEach(t)

\* push_attribute((name, value)): ' name="value"', the value escaped
Attribute(name, value) == <<32>> \o name \o <<61, 34>> \o escape(value) \o <<34>>

\* the nine hdrgm attributes both writers put on rdf:Description
HdrgmAttributes(m) ==
    Attribute(HDRGM_COLON \o AttributeName.Version, m.version)
    \o Attribute(HDRGM_COLON \o AttributeName.BaseRenditionIsHDR,
                 IF m.base_rendition_is_hdr THEN XmpValue.True ELSE XmpValue.False)
    \o Attribute(HDRGM_COLON \o AttributeName.GainMapMin, format_float_array(m.gain_map_min))
    \o Attribute(HDRGM_COLON \o AttributeName.GainMapMax, format_float_array(m.gain_map_max))
    \o Attribute(HDRGM_COLON \o AttributeName.Gamma, format_float_array(m.gamma))
    \o Attribute(HDRGM_COLON \o AttributeName.OffsetSDR, format_float_array(m.offset_sdr))
    \o Attribute(HDRGM_COLON \o AttributeName.OffsetHDR, format_float_array(m.offset_hdr))
    \o Attribute(HDRGM_COLON \o AttributeName.HDRCapacityMin, format6(m.hdr_capacity_min))
    \o Attribute(HDRGM_COLON \o AttributeName.HDRCapacityMax, format6(m.hdr_capacity_max))

create_iso_xmp(m) ==
    XmpTag.XML_DECL \o XmpTag.XMPMETA_START
    \o XmpTag.RDF_START_HEAD \o Attribute(XmpTag.XMLNS_HDRGM, HDRGM_NAMESPACE) \o <<62>>
    \o XmpTag.DESCRIPTION_HEAD \o HdrgmAttributes(m) \o <<47, 62>>
    \o XmpTag.CLOSE_RDF_XMPMETA

create_ultrahdr_v1_xmp(m, gain_map_mime) ==
    XmpTag.XML_DECL \o XmpTag.XMPMETA_START
    \o XmpTag.RDF_START_HEAD \o Attribute(XmpTag.XMLNS_HDRGM, HDRGM_NAMESPACE)
    \o Attribute(XmpTag.XMLNS_CONTAINER, CONTAINER_NAMESPACE)
    \o Attribute(XmpTag.XMLNS_ITEM, CONTAINER_ITEM_NAMESPACE) \o <<62>>
    \o XmpTag.DESCRIPTION_HEAD \o HdrgmAttributes(m) \o <<62>>
    \o XmpTag.DIRECTORY_START
    \o XmpTag.LI_START \o XmpTag.ITEM_HEAD \o Attribute(XmpTag.ITEM_SEMANTIC, XmpValue.Primary)
    \o Attribute(XmpTag.ITEM_MIME, XmpValue.image_jpeg) \o <<47, 62>> \o XmpTag.LI_END
    \o XmpTag.LI_START \o XmpTag.ITEM_HEAD \o Attribute(XmpTag.ITEM_SEMANTIC, XmpValue.GainMap)
    \o Attribute(XmpTag.ITEM_MIME, gain_map_mime) \o <<47, 62>> \o XmpTag.LI_END
    \o XmpTag.DIRECTORY_END
    \o XmpTag.CLOSE_DESCRIPTION \o XmpTag.CLOSE_RDF_XMPMETA

create_combined_xmp(m) == create_ultrahdr_v1_xmp(m, XmpValue.image_jpeg)

----------------------------------------------------------------------------
(* jpeg/xmp.rs: XmpParser.  The XML walk is quick_xml's; the model follows it *)
(* on packets whose hdrgm fields are attributes, the form both writers emit:  *)
(* each attribute hdrgm:Name="value" of an element sets the field Name.       *)

\* std::str::from_utf8 succeeds; the buffers of the model hold ASCII text, or
\* a byte of 0x80 and above where the text is no UTF-8
from_utf8_ok(d) == \A i \in 1..Len(d) : d[i] < 128

has_gain_map_metadata(xmp_data) ==
    /\ from_utf8_ok(xmp_data)
    /\ contains(xmp_data, HDRGM_NAMESPACE) \/ contains(xmp_data, HDRGM_COLON)

\* the value of the first attribute hdrgm:name="..." of the packet
AttributeValue(x, name) ==
    LET pat == <<32>> \o HDRGM_COLON \o name \o <<61, 34>>
        hits == {i \in 1..(Len(x) - Len(pat) + 1) : SubSeq(x, i, i + Len(pat) - 1) = pat}
    IN  IF hits = {} THEN None
        ELSE LET start == (CHOOSE i \in hits : \A j \in hits : i <= j) + Len(pat)
                 quotes == {j \in start..Len(x) : x[j] = 34}
             IN  IF quotes = {} THEN None
                 ELSE Some(SubSeq(x, start, (CHOOSE j \in quotes : \A k \in quotes : j <= k) - 1))

IsDigits(t) == \A i \in 1..Len(t) : t[i] >= 48 /\ t[i] <= 57

RECURSIVE DigitsValue(_)
DigitsValue(t) ==
    IF t = <<>> THEN 0 ELSE DigitsValue(SubSeq(t, 1, Len(t) - 1)) * 10 + (t[Len(t)] - 48)

\* t is the lower-case text lower, in any case
EqIgnoreAsciiCase(t, lower) ==
    /\ Len(t) = Len(lower)
    /\ \A i \in 1..Len(t) : t[i] = lower[i] \/ t[i] = lower[i] - 32

\* str::parse::<f32> on a plain decimal ([+-] digits [. digits]) and on the
\* texts nan, inf and infinity in any case; the model holds no text with an
\* exponent, and takes any other text as a parse error.  Decimals beyond the
\* seventh are below the unit of the model.
parse_f32(t) ==
    LET signed == t # <<>> /\ (t[1] = 45 \/ t[1] = 43)
        body == IF signed THEN Tail(t) ELSE t
        dots == {i \in 1..Len(body) : body[i] = 46}
        dot == IF dots = {} THEN Len(body) + 1 ELSE CHOOSE i \in dots : \A j \in dots : i <= j
        int == SubSeq(body, 1, dot - 1)
        frac == SubSeq(body, dot + 1, Len(body))
        frac7 == SubSeq(frac \o <<48, 48, 48, 48, 48, 48, 48>>, 1, 7)
        mag == DigitsValue(int) * 10000000 + DigitsValue(frac7)
    IN  IF EqIgnoreAsciiCase(body, <<110, 97, 110>>) THEN Some(F32.NAN)
        ELSE IF \/ EqIgnoreAsciiCase(body, <<105, 110, 102>>)
                \/ EqIgnoreAsciiCase(body, <<105, 110, 102, 105, 110, 105, 116, 121>>)
             THEN Some(IF signed /\ t[1] = 45 THEN F32.NEG_INFINITY ELSE F32.INFINITY)
        ELSE IF Len(int) + Len(frac) = 0 \/ ~IsDigits(int) \/ ~IsDigits(frac) THEN None
        ELSE Some(IF signed /\ t[1] = 45 THEN -mag ELSE mag)

IsSpace(b) == b \in {9, 10, 11, 12, 13, 32}

RECURSIVE trim(_)
trim(t) ==
    IF t = <<>> THEN t
    ELSE IF IsSpace(t[1]) THEN trim(Tail(t))
    ELSE IF IsSpace(t[Len(t)]) THEN trim(SubSeq(t, 1, Len(t) - 1))
    ELSE t

\* value.split(|c| c == ',' || c == ' ').filter(|s| !s.is_empty())
RECURSIVE SplitParts(_, _)
SplitParts(t, cur) ==
    IF t = <<>> THEN (IF cur = <<>> THEN <<>> ELSE <<cur>>)
    ELSE IF t[1] = 44 \/ t[1] = 32
         THEN (IF cur = <<>> THEN <<>> ELSE <<cur>>) \o SplitParts(Tail(t), <<>>)
         ELSE SplitParts(Tail(t), Append(cur, t[1]))

parse_float_array(value) ==
    IF ~contains(value, <<44>>) /\ ~contains(value, <<32>>) THEN
        LET v == parse_f32(trim(value)) IN
        IF v.some THEN Ok(<<v.val, v.val, v.val>>) ELSE Err("MetadataError")
    ELSE
        LET parts == SplitParts(value, <<>>)
            parsed == [i \in 1..Len(parts) |-> parse_f32(trim(parts[i]))]
        IN  IF \E i \in 1..Len(parts) : ~parsed[i].some THEN Err("MetadataError")
            ELSE IF Len(parts) = 1 THEN Ok(<<parsed[1].val, parsed[1].val, parsed[1].val>>)
            ELSE IF Len(parts) = 3 THEN Ok([i \in 1..3 |-> parsed[i].val])
            ELSE Err("MetadataError")

\* "true" in any case
eq_ignore_ascii_case_true(t) ==
    /\ Len(t) = 4
    /\ \A i \in 1..4 : t[i] = XmpValue.true[i] \/ t[i] = XmpValue.true[i] - 32

\* XmpParser::parse: the metadata of the packet, every field the packet does
\* not set left at its default
XmpParser_parse(xmp_data) ==
    IF ~from_utf8_ok(xmp_data) THEN Err("XmpError")
    ELSE
        LET d == GainMapMetadata_default
            attr(name) == AttributeValue(xmp_data, name)
            arr(name, dflt) == IF attr(name).some THEN parse_float_array(attr(name).val)
                               ELSE Ok(dflt)
            num(name, dflt) == IF attr(name).some THEN parse_f32(attr(name).val)
                               ELSE Some(dflt)
            gmin == arr(AttributeName.GainMapMin, d.gain_map_min)
            gmax == arr(AttributeName.GainMapMax, d.gain_map_max)
            gam == arr(AttributeName.Gamma, d.gamma)
            osdr == arr(AttributeName.OffsetSDR, d.offset_sdr)
            ohdr == arr(AttributeName.OffsetHDR, d.offset_hdr)
            cmin == num(AttributeName.HDRCapacityMin, d.hdr_capacity_min)
            cmax == num(AttributeName.HDRCapacityMax, d.hdr_capacity_max)
            ver == attr(AttributeName.Version)
            base == attr(AttributeName.BaseRenditionIsHDR)
        IN  IF \/ gmin.st # "ok" \/ gmax.st # "ok" \/ gam.st # "ok"
               \/ osdr.st # "ok" \/ ohdr.st # "ok" \/ ~cmin.some \/ ~cmax.some
            THEN Err("MetadataError")
            ELSE Ok([version |-> IF ver.some THEN ver.val ELSE d.version,
                     base_rendition_is_hdr |->
                        IF base.some
                        THEN eq_ignore_ascii_case_true(base.val) \/ base.val = <<49>>
                        ELSE d.base_rendition_is_hdr,
                     gain_map_min |-> gmin.val,
                     gain_map_max |-> gmax.val,
                     gamma |-> gam.val,
                     offset_sdr |-> osdr.val,
                     offset_hdr |-> ohdr.val,
                     hdr_capacity_min |-> cmin.val,
                     hdr_capacity_max |-> cmax.val])

----------------------------------------------------------------------------
(* ultrahdr/decoder.rs: find_primary_eoi_offset, the scan walker *)

\* One iteration of the inner loop over the entropy-coded data; kind is
\* "go" (next iteration), "ret" (return Ok(pos)) or "brk" (break).
WalkScanIter(d, pos) ==
    IF At(d, pos) # 255 THEN [kind |-> "go", pos |-> pos + 1]
    ELSE
        LET next == At(d, pos + 1) IN
        IF next = 0 THEN [kind |-> "go", pos |-> pos + 2]
        ELSE IF next = 217 THEN [kind |-> "ret", pos |-> pos]
        ELSE IF next >= 208 /\ next <= 215 THEN [kind |-> "go", pos |-> pos + 2]
        ELSE IF next # 255 THEN [kind |-> "brk", pos |-> pos]
        ELSE [kind |-> "go", pos |-> pos + 1]

RECURSIVE WalkScanLoop(_, _)
WalkScanLoop(d, pos) ==
    IF pos < Len(d) - 1
    THEN LET w == WalkScanIter(d, pos) IN
         IF w.kind = "go" THEN WalkScanLoop(d, w.pos) ELSE w
    ELSE [kind |-> "end", pos |-> pos]

\* a step over a marker that adds the length field alone
WalkMarker_LengthOnly(d, marker, pos) ==
    IF marker # 216 /\ marker # 217 /\ ~(marker >= 208 /\ marker <= 215) THEN
        IF pos + 3 >= Len(d) THEN [kind |-> "brk", pos |-> pos]
        ELSE [kind |-> "go",
              pos |-> pos + u16_from_be_bytes(At(d, pos + 2), At(d, pos + 3))]
    ELSE [kind |-> "go", pos |-> pos + 2]

\* The tail of an iteration of the outer loop: the step over a marker
WalkMarker(d, marker, pos) ==
    IF marker # 216 /\ marker # 217 /\ ~(marker >= 208 /\ marker <= 215) THEN
        IF pos + 3 >= Len(d) THEN [kind |-> "brk", pos |-> pos]
        ELSE [kind |-> "go",
              pos |-> pos + 2 + u16_from_be_bytes(At(d, pos + 2), At(d, pos + 3))]
    ELSE [kind |-> "go", pos |-> pos + 2]

\* One iteration of the outer loop
WalkIter(d, pos) ==
    IF At(d, pos) # 255 THEN [kind |-> "go", pos |-> pos + 1]
    ELSE
        LET marker == At(d, pos + 1) IN
        IF marker = 255 THEN [kind |-> "go", pos |-> pos + 1]
        ELSE IF marker = 217 THEN [kind |-> "ret", pos |-> pos]
        ELSE IF marker = 218 THEN
            IF pos + 3 >= Len(d) THEN [kind |-> "brk", pos |-> pos]
            ELSE
                LET len == u16_from_be_bytes(At(d, pos + 2), At(d, pos + 3))
                    w == WalkScanLoop(d, pos + 2 + len)
                IN  IF w.kind = "ret" THEN w
                    \* marker is still 0xDA here: the step over a marker follows
                    ELSE WalkMarker(d, marker, w.pos)
        ELSE WalkMarker(d, marker, pos)

RECURSIVE WalkLoop(_, _)
WalkLoop(d, pos) ==
    IF pos < Len(d) - 1
    THEN LET w == WalkIter(d, pos) IN
         IF w.kind = "go" THEN WalkLoop(d, w.pos) ELSE w
    ELSE [kind |-> "end", pos |-> pos]

\* a search for the first FF D9 of the buffer, whatever it belongs to
find_primary_eoi_offset_Naive(d) ==
    LET S == {i \in 0..(Len(d) - 2) : At(d, i) = 255 /\ At(d, i + 1) = 217} IN
    IF S = {} THEN Err("InvalidJpeg") ELSE Ok(CHOOSE i \in S : \A j \in S : i <= j)

\* Ok(offset of the primary EOI) or the InvalidJpeg error; data.len() - 1
\* underflows on an empty buffer
find_primary_eoi_offset(d) ==
    IF Len(d) = 0 THEN Panic
    ELSE LET w == WalkLoop(d, 2) IN
         IF w.kind = "ret" THEN Ok(w.pos) ELSE Err("InvalidJpeg")

----------------------------------------------------------------------------
(* ultrahdr/decoder.rs: parse_mpf_for_gainmap *)

parse_mpf_for_gainmap(mpf_data) ==
    IF Len(mpf_data) < 4 \/ SubSeq(mpf_data, 1, 4) # MPF_HEADER THEN None
    ELSE
        LET d == SubSeq(mpf_data, 5, Len(mpf_data))
            little_endian == At(d, 0) = 73 /\ At(d, 1) = 73
            read_u16(off) ==
                IF off + 2 > Len(d) THEN None
                ELSE Some(IF little_endian THEN u16_from_le_bytes(At(d, off), At(d, off + 1))
                          ELSE u16_from_be_bytes(At(d, off), At(d, off + 1)))
            read_u32(off) ==
                IF off + 4 > Len(d) THEN None
                ELSE Some(IF little_endian
                          THEN u32_from_le_bytes(At(d, off), At(d, off + 1),
                                                 At(d, off + 2), At(d, off + 3))
                          ELSE u32_from_be_bytes(At(d, off), At(d, off + 1),
                                                 At(d, off + 2), At(d, off + 3)))
        IN  IF Len(d) < 8 THEN None
            ELSE
                LET ifd_offset == read_u32(4).val IN
                IF ifd_offset >= Len(d) THEN None
                ELSE IF ~read_u16(ifd_offset).some THEN None
                ELSE
                    LET entry_count == read_u16(ifd_offset).val
                        entry_start(i) == ifd_offset + 2 + (i * 12)
                        \* the entries the loop reaches: those that lie in the payload
                        most == IF entry_count < Len(d) THEN entry_count ELSE Len(d)
                        reached == {i \in 0..(most - 1) : entry_start(i) + 12 <= Len(d)}
                        found == {i \in reached : read_u16(entry_start(i)).val = 45058}
                    IN  IF found = {} THEN None
                        ELSE
                            LET e == entry_start(CHOOSE i \in found : \A j \in found : i <= j)
                                count == read_u32(e + 4).val \div 16
                                second_entry_offset == read_u32(e + 8).val + 16
                            IN  IF count >= 2 /\ second_entry_offset + 16 <= Len(d)
                                THEN Some([offset |-> read_u32(second_entry_offset + 8).val,
                                           size |-> read_u32(second_entry_offset + 4).val])
                                ELSE None

----------------------------------------------------------------------------
(* ultrahdr/decoder.rs: probe, has_gainmap_metadata, decode, extract_* *)

UltraHdrProbeResult_default ==
    [is_valid |-> FALSE, has_primary_image |-> FALSE, has_gain_map |-> FALSE,
     has_metadata |-> FALSE, width |-> 0, height |-> 0,
     gain_map_width |-> 0, gain_map_height |-> 0,
     hdr_capacity |-> 0, metadata_version |-> <<>>]

IsJpegMagic(d) == Len(d) >= 2 /\ d[1] = 255 /\ d[2] = 216

\* get_jpeg_dimensions, from the result p of the parse
DimensionsOf(p) ==
    IF p.st # "ok" THEN p
    ELSE IF get_dimensions(p.val).some THEN Ok(get_dimensions(p.val).val)
    ELSE Err("InvalidJpeg")

\* get_jpeg_dimensions
get_jpeg_dimensions(jpeg_data) == DimensionsOf(Parse(jpeg_data))

\* the (offset, size) of the MPF segment, when there is one and it parses
EntryOf(mpf) == IF mpf.some THEN parse_mpf_for_gainmap(mpf.val.data) ELSE None

\* if offset + size <= data.len()
EntryInFile(d, e) == IF e.some /\ e.val.offset + e.val.size <= Len(d) THEN e ELSE None

\* the MPF route of probe_for_gain_map and extract_gain_map: the range the
\* second MP entry names, when it lies in the file
MpfRange(d, parser) == EntryInFile(d, EntryOf(find_mpf_segment(parser)))

\* the bytes after the primary EOI at eoi, when they start with FF D8
JpegAfter(d, eoi) ==
    IF eoi.st # "ok" THEN eoi
    ELSE IF IsJpegMagic(Slice(d, eoi.val + 2, Len(d)))
         THEN Ok(Some(Slice(d, eoi.val + 2, Len(d))))
         ELSE Ok(None)

\* the second JPEG after the primary EOI, when there is one
TrailingJpeg(d) == JpegAfter(d, find_primary_eoi_offset(d))

\* Method 1 of probe_for_gain_map: the dimensions of the range r
DimensionsByMpf(d, r) ==
    IF r.some THEN get_jpeg_dimensions(Slice(d, r.val.offset, r.val.offset + r.val.size))
    ELSE Err("none")

\* Method 2 of probe_for_gain_map: the dimensions of the trailing JPEG t
DimensionsByScan(t) ==
    IF t.st = "panic" THEN Panic
    ELSE IF t.st = "ok" /\ t.val.some THEN get_jpeg_dimensions(t.val.val)
    ELSE Err("none")

\* Method 1, and Method 2 when Method 1 has found no dimensions
FirstFound(byMpf, byScan) ==
    IF byMpf.st = "panic" THEN Panic
    ELSE IF byMpf.st = "ok" THEN Ok(Some(byMpf.val))
    ELSE IF byScan.st = "panic" THEN Panic
    ELSE IF byScan.st = "ok" THEN Ok(Some(byScan.val))
    ELSE Ok(None)

\* probe_for_gain_map: Ok(Some(dimensions)), Ok(None), or the panic of a parse
probe_for_gain_map(d, parser) ==
    FirstFound(DimensionsByMpf(d, MpfRange(d, parser)), DimensionsByScan(TrailingJpeg(d)))

\* the metadata part of probe: None without an hdrgm XMP segment, else
\* Some(result of XmpParser::parse)
ProbeMetadata(xmp) ==
    IF xmp.some /\ has_gain_map_metadata(get_xmp_data(xmp.val))
    THEN Some(XmpParser_parse(get_xmp_data(xmp.val)))
    ELSE None

\* a probe whose is_valid does not ask for the metadata
ProbeResult_NoMetadata(dims, meta, gm) ==
    IF gm.st = "panic" THEN Panic
    ELSE Ok([is_valid |-> gm.val.some,
             has_primary_image |-> TRUE,
             has_gain_map |-> gm.val.some,
             has_metadata |-> meta.some,
             width |-> IF dims.some THEN dims.val.width ELSE 0,
             height |-> IF dims.some THEN dims.val.height ELSE 0,
             gain_map_width |-> IF gm.val.some THEN gm.val.val.width ELSE 0,
             gain_map_height |-> IF gm.val.some THEN gm.val.val.height ELSE 0,
             hdr_capacity |-> IF meta.some /\ meta.val.st = "ok"
                              THEN meta.val.val.hdr_capacity_max ELSE 0,
             metadata_version |-> IF meta.some /\ meta.val.st = "ok"
                                  THEN meta.val.val.version ELSE <<>>])

\* the result probe fills in after a successful parse
ProbeResult(dims, meta, gm) ==
    IF gm.st = "panic" THEN Panic
    ELSE Ok([is_valid |-> gm.val.some /\ meta.some,
             has_primary_image |-> TRUE,
             has_gain_map |-> gm.val.some,
             has_metadata |-> meta.some,
             width |-> IF dims.some THEN dims.val.width ELSE 0,
             height |-> IF dims.some THEN dims.val.height ELSE 0,
             gain_map_width |-> IF gm.val.some THEN gm.val.val.width ELSE 0,
             gain_map_height |-> IF gm.val.some THEN gm.val.val.height ELSE 0,
             hdr_capacity |-> IF meta.some /\ meta.val.st = "ok"
                              THEN meta.val.val.hdr_capacity_max ELSE 0,
             metadata_version |-> IF meta.some /\ meta.val.st = "ok"
                                  THEN meta.val.val.version ELSE <<>>])

\* probe after the magic test, p the result of the parse
ProbeParsed(d, p) ==
    IF p.st = "panic" THEN Panic
    ELSE IF p.st = "err"
         THEN Ok([UltraHdrProbeResult_default EXCEPT !.has_primary_image = TRUE])
    ELSE ProbeResult(get_dimensions(p.val),
                     ProbeMetadata(find_xmp_segment(p.val)),
                     probe_for_gain_map(d, p.val))

\* probe
probe(d) ==
    IF ~IsJpegMagic(d) THEN Ok(UltraHdrProbeResult_default)
    ELSE ProbeParsed(d, Parse(d))

\* has_gainmap_metadata after the magic test, p the result of the parse
HasMetadataParsed(p) ==
    IF p.st = "panic" THEN Panic
    ELSE IF p.st = "err" THEN Ok(FALSE)
    ELSE IF find_xmp_segment(p.val).some
         THEN Ok(has_gain_map_metadata(get_xmp_data(find_xmp_segment(p.val).val)))
         ELSE Ok(find_mpf_segment(p.val).some)

\* has_gainmap_metadata
has_gainmap_metadata(d) ==
    IF ~IsJpegMagic(d) THEN Ok(FALSE) ELSE HasMetadataParsed(Parse(d))

\* XmpParser::parse on the packet of the segment xmp, when it names hdrgm
MetadataOf(xmp) ==
    IF ~xmp.some THEN Err("NoGainMap")
    ELSE IF ~has_gain_map_metadata(get_xmp_data(xmp.val)) THEN Err("NoGainMap")
    ELSE XmpParser_parse(get_xmp_data(xmp.val))

\* extract_metadata_from_parser
extract_metadata_from_parser(parser) == MetadataOf(find_xmp_segment(parser))

\* data[..eoi_offset + 2]
Through(d, eoi) == IF eoi.st # "ok" THEN eoi ELSE Ok(Slice(d, 0, eoi.val + 2))

\* extract_sdr_from_parser that hands back the whole input
extract_sdr_from_parser_WholeInput(d, parser) == Ok(d)

\* extract_sdr_from_parser
extract_sdr_from_parser(d, parser) == Through(d, find_primary_eoi_offset(d))

\* the gain map with the dimensions get_jpeg_dimensions found in it
WithDimensions(gain_map_jpeg, dims) ==
    IF dims.st # "ok" THEN dims
    ELSE Ok([gain_map |-> gain_map_jpeg, width |-> dims.val.width,
             height |-> dims.val.height])

GainMapOf(gain_map_jpeg) == WithDimensions(gain_map_jpeg, get_jpeg_dimensions(gain_map_jpeg))

\* Method 2 of extract_gain_map
GainMapByScan(t) ==
    IF t.st # "ok" THEN t
    ELSE IF ~t.val.some THEN Err("NoGainMap")
    ELSE GainMapOf(t.val.val)

\* Method 1 of extract_gain_map when the range r lies in the file (the error
\* of get_jpeg_dimensions is returned), else Method 2
GainMapByRoute(d, r) ==
    IF r.some THEN GainMapOf(Slice(d, r.val.offset, r.val.offset + r.val.size))
    ELSE GainMapByScan(TrailingJpeg(d))

\* extract_gain_map: Ok of the gain-map bytes and their dimensions
extract_gain_map(d, parser) == GainMapByRoute(d, MpfRange(d, parser))

\* the result of decode from its four parts, in the order decode asks for them
DecodeResult(dims, metadata, gm, sdr) ==
    IF ~dims.some THEN Err("InvalidJpeg")
    ELSE IF metadata.st # "ok" THEN metadata
    ELSE IF gm.st # "ok" THEN gm
    ELSE IF sdr.st # "ok" THEN sdr
    ELSE Ok([sdr_image |-> sdr.val, gain_map |-> gm.val.gain_map,
             metadata |-> metadata.val,
             width |-> dims.val.width, height |-> dims.val.height,
             gain_map_width |-> gm.val.width,
             gain_map_height |-> gm.val.height])

\* decode, p the result of the parse
DecodeParsed(d, p) ==
    IF p.st # "ok" THEN p
    ELSE DecodeResult(get_dimensions(p.val), extract_metadata_from_parser(p.val),
                      extract_gain_map(d, p.val), extract_sdr_from_parser(d, p.val))

\* decode
decode(d) == DecodeParsed(d, Parse(d))

\* extract_base, p the result of the parse
BaseParsed(d, p) == IF p.st # "ok" THEN p ELSE extract_sdr_from_parser(d, p.val)

\* extract_base
extract_base(d) == BaseParsed(d, Parse(d))

\* extract_metadata, p the result of the parse
MetadataParsed(p) == IF p.st # "ok" THEN p ELSE extract_metadata_from_parser(p.val)

\* extract_metadata
extract_metadata(d) == MetadataParsed(Parse(d))

----------------------------------------------------------------------------
(* ultrahdr/encoder.rs: create_ultrahdr_jpeg and encode_from_components *)

\* estimated_mpf_size
ESTIMATED_MPF_SIZE == 120

\* the last step: the MPF segment is in, write and append the gain map
ComposeWithMpf(withMpf, gain_map_jpeg) ==
    IF withMpf.st # "ok" THEN withMpf
    ELSE Ok(write_with_gain_map(withMpf.val, gain_map_jpeg))

\* base_jpeg parsed again as parser2, its length taken as the gain-map offset
ComposeReparsed(gain_map_offset, parser2, gain_map_jpeg) ==
    IF parser2.st # "ok" THEN parser2
    ELSE ComposeWithMpf(
             add_mpf_segment(JpegWriter(parser2.val.segments, parser2.val.scan_data),
                             gain_map_offset + ESTIMATED_MPF_SIZE, Len(gain_map_jpeg)),
             gain_map_jpeg)

\* as u32: no buffer of the model reaches 2^32 bytes
ComposeBase(base_jpeg, gain_map_jpeg) ==
    ComposeReparsed(Len(base_jpeg), Parse(base_jpeg), gain_map_jpeg)

\* the XMP segment is in: write the base image
ComposeWithXmp(withXmp, gain_map_jpeg) ==
    IF withXmp.st # "ok" THEN withXmp
    ELSE ComposeBase(write(withXmp.val), gain_map_jpeg)

\* create_ultrahdr_jpeg, parser the result of the parse of sdr_jpeg
ComposeParsed(parser, gain_map_jpeg, metadata, options) ==
    IF parser.st # "ok" THEN parser
    ELSE IF ~options.include_ultrahdr_v1 /\ ~options.include_iso_metadata
         THEN Err("MetadataError")
    ELSE ComposeWithXmp(
             add_xmp_segment(
                 remove_mpf_segments(remove_xmp_segments(
                     JpegWriter(parser.val.segments, parser.val.scan_data))),
                 IF options.include_ultrahdr_v1
                 THEN create_combined_xmp(metadata)
                 ELSE create_iso_xmp(metadata)),
             gain_map_jpeg)

\* create_ultrahdr_jpeg
create_ultrahdr_jpeg(sdr_jpeg, gain_map_jpeg, metadata, options) ==
    ComposeParsed(Parse(sdr_jpeg), gain_map_jpeg, metadata, options)

encode_from_components(sdr_jpeg, gain_map_jpeg, metadata, options) ==
    create_ultrahdr_jpeg(sdr_jpeg, gain_map_jpeg, metadata, options)

----------------------------------------------------------------------------
(* gainmap/encode.rs and gainmap/decode.rs.  A pixel buffer is kept as its   *)
(* length and the one value all its elements have; the gain-map bytes and    *)
(* the HDR floats the functions put out are kept as their number only.       *)

Buffer(len, value) == [len |-> len, value |-> value]

\* a * b on u32.  The dimensions of the model are at most 2^16, and 2^16 * 2^16
\* is the one product that is beyond u32: it panics in a build with overflow
\* checks and wraps to 0 in a build without
u32_mul(a, b, overflow_checks) ==
    IF a = 65536 /\ b = 65536
    THEN (IF overflow_checks THEN Panic ELSE Ok(0))
    ELSE Ok(a * b)

\* srgb_to_linear of byte / 255.0, for the bytes 0 (0.0) and 255 (1.0)
srgb_to_linear(byte) == IF byte = 0 THEN 0 ELSE 10000000

\* (n + d - 1) / d
DivCeil(n, d) == (n + d - 1) \div d

\* the first pass: add_sample on every sample_step-th pixel
RECURSIVE AddSamples(_, _, _, _)
AddSamples(self, n, sdr, hdr) ==
    IF n = 0 THEN self
    ELSE AddSamples(add_sample(self, sdr, hdr, 156250, 156250), n - 1, sdr, hdr)

\* the second pass of compute_gain_map and compute_gain_map_rgb indexes out
\* of range: src_idx * 3 + 2 beyond sdr_rgb or hdr_linear, or gm_idx beyond
\* gain_map.  The indices grow with gx and gy, so the first and the last
\* pixel of the gain map decide.
SecondPassPanics(sdr_len, hdr_len, gm_len, width, height, gm_width, gm_height, scale, channels) ==
    /\ gm_width >= 1 /\ gm_height >= 1
    /\ LET least(a, b) == IF a < b THEN a ELSE b
           first == least(scale \div 2, height - 1) * width + least(scale \div 2, width - 1)
       IN  \/ first * 3 + 2 >= sdr_len
           \/ first * 3 + 2 >= hdr_len
           \/ channels - 1 >= gm_len
           \/ LET sx == least((gm_width - 1) * scale + scale \div 2, width - 1)
                  sy == least((gm_height - 1) * scale + scale \div 2, height - 1)
                  last == sy * width + sx
              IN  \/ last * 3 + 2 >= sdr_len
                  \/ last * 3 + 2 >= hdr_len
                  \/ ((gm_height - 1) * gm_width + gm_width - 1) * channels + channels - 1 >= gm_len

\* compute_gain_map (channels = 1) and compute_gain_map_rgb (channels = 3)
ComputeGainMap(sdr_rgb, hdr_linear, width, height, target_capacity, gain_map_scale, channels, overflow_checks) ==
    LET product == u32_mul(width, height, overflow_checks)
        pixel_count == product.val
        scale == IF gain_map_scale > 1 THEN gain_map_scale ELSE 1
        gm_width == DivCeil(width, scale)
        gm_height == DivCeil(height, scale)
        gm_product == u32_mul(gm_width, gm_height, overflow_checks)
        gm_pixel_count == gm_product.val
        sample_step == IF pixel_count \div 10000 > 1 THEN pixel_count \div 10000 ELSE 1
        linear == srgb_to_linear(sdr_rgb.value)
        metadata_computer ==
            AddSamples(MetadataComputer_new, DivCeil(pixel_count, sample_step),
                       <<linear, linear, linear>>,
                       <<hdr_linear.value, hdr_linear.value, hdr_linear.value>>)
    IN  IF product.st # "ok" THEN Panic
        ELSE IF sdr_rgb.len # pixel_count * 3 THEN Err("InvalidDimensions")
        ELSE IF hdr_linear.len # pixel_count * 3 THEN Err("InvalidDimensions")
        ELSE IF gm_product.st # "ok" THEN Panic
        ELSE IF SecondPassPanics(sdr_rgb.len, hdr_linear.len, gm_pixel_count * channels,
                                 width, height, gm_width, gm_height, scale, channels)
             THEN Panic
        ELSE Ok([gain_map |-> [len |-> gm_pixel_count * channels],
                 metadata |-> compute(metadata_computer, target_capacity)])

compute_gain_map(sdr_rgb, hdr_linear, width, height, target_capacity, gain_map_scale, overflow_checks) ==
    ComputeGainMap(sdr_rgb, hdr_linear, width, height, target_capacity, gain_map_scale,
                   1, overflow_checks)

compute_gain_map_rgb(sdr_rgb, hdr_linear, width, height, target_capacity, gain_map_scale, overflow_checks) ==
    ComputeGainMap(sdr_rgb, hdr_linear, width, height, target_capacity, gain_map_scale,
                   3, overflow_checks)

\* sample_gain_map_bilinear and sample_gain_map_rgb_bilinear at the first
\* pixel, x = y = 0.0: width - 1 and height - 1 panic for 0 in a build with
\* overflow checks and wrap without, where x0 = y0 = 0 all the same and the
\* read of gain_map[0] decides
SamplePanics(gm_len, width, height, overflow_checks) ==
    \/ overflow_checks /\ (width = 0 \/ height = 0)
    \/ gm_len = 0

\* the body of the loop over the pixels panics: it does the same reads for
\* every pixel but for the indices, which the size checks have bounded when
\* no product has wrapped
ApplyBodyPanics(sdr_len, gm_len, metadata, gm_width, gm_height, overflow_checks) ==
    \/ sdr_len = 0
    \/ SamplePanics(gm_len, gm_width, gm_height, overflow_checks)
    \/ Len(metadata.gain_map_min) < 3
    \/ Len(metadata.gain_map_max) < 3
    \/ Len(metadata.gamma) < 3
    \/ Len(metadata.offset_sdr) < 3
    \/ Len(metadata.offset_hdr) < 3

\* apply_gain_map (channels = 1) and apply_gain_map_rgb (channels = 3)
ApplyGainMap(sdr_rgb, gain_map, metadata, width, height, gm_width, gm_height, channels, overflow_checks) ==
    LET product == u32_mul(width, height, overflow_checks)
        gm_product == u32_mul(gm_width, gm_height, overflow_checks)
    IN  IF product.st # "ok" \/ gm_product.st # "ok" THEN Panic
        ELSE IF sdr_rgb.len # product.val * 3 THEN Err("InvalidDimensions")
        ELSE IF gain_map.len # gm_product.val * channels THEN Err("InvalidDimensions")
        ELSE IF /\ width >= 1 /\ height >= 1
                /\ ApplyBodyPanics(sdr_rgb.len, gain_map.len, metadata,
                                   gm_width, gm_height, overflow_checks)
             THEN Panic
        ELSE Ok([len |-> product.val * 3])

apply_gain_map(sdr_rgb, gain_map, metadata, width, height, gm_width, gm_height, overflow_checks) ==
    ApplyGainMap(sdr_rgb, gain_map, metadata, width, height, gm_width, gm_height,
                 1, overflow_checks)

apply_gain_map_rgb(sdr_rgb, gain_map_rgb, metadata, width, height, gm_width, gm_height, overflow_checks) ==
    ApplyGainMap(sdr_rgb, gain_map_rgb, metadata, width, height, gm_width, gm_height,
                 3, overflow_checks)

----------------------------------------------------------------------------
(* The buffers handed to the library.  A buffer is assembled from named      *)
(* chunks; shape keeps the names, so that a property can speak of the        *)
(* JPEGs it is about without parsing them.                                   *)

MaxChunks == 3

\* FF <marker> <LEN> <payload> with LEN = payload.len + 2
Segment(marker_byte, payload) ==
    <<255, marker_byte>> \o u16_to_be_bytes(Len(payload) + 2) \o payload

\* An MPF payload laid out as the MPF table prescribes: an IFD of three
\* 12-byte entries and the MP-entry table at 50 from the TIFF header.
ConformantMpf(gain_map_offset, gain_map_size) ==
    MPF_HEADER \o <<73, 73>> \o <<42, 0>> \o u32_to_le_bytes(8)
    \o u16_to_le_bytes(3)
    \o u16_to_le_bytes(45056) \o u16_to_le_bytes(7) \o u32_to_le_bytes(4)
    \o <<48, 49, 48, 48>>
    \o u16_to_le_bytes(45057) \o u16_to_le_bytes(4) \o u32_to_le_bytes(1)
    \o u32_to_le_bytes(2)
    \o u16_to_le_bytes(45058) \o u16_to_le_bytes(7) \o u32_to_le_bytes(32)
    \o u32_to_le_bytes(50)
    \o u32_to_le_bytes(0)
    \o u32_to_le_bytes(537067520) \o u32_to_le_bytes(0) \o u32_to_le_bytes(0)
    \o u16_to_le_bytes(0) \o u16_to_le_bytes(0)
    \o u32_to_le_bytes(196608) \o u32_to_le_bytes(gain_map_size)
    \o u32_to_le_bytes(gain_map_offset)
    \o u16_to_le_bytes(0) \o u16_to_le_bytes(0)

\* a SOF0 segment: precision, height, width
SofSegment(width, height) ==
    Segment(192, <<8>> \o u16_to_be_bytes(height) \o u16_to_be_bytes(width))

\* an XMP packet that names hdrgm and carries a value that is no number
BadValueXmp ==
    XmpTag.XMPMETA_START \o XmpTag.RDF_START_HEAD \o Attribute(XmpTag.XMLNS_HDRGM, HDRGM_NAMESPACE) \o <<62>>
    \o XmpTag.DESCRIPTION_HEAD \o Attribute(HDRGM_COLON \o AttributeName.GainMapMax, <<120>>) \o <<47, 62>>
    \o XmpTag.CLOSE_RDF_XMPMETA

\* gain-map JPEGs: 2x2 without a scan, 2x2 with a scan, and one without SOF
\* (the chunk gm_xmp is the first with the hdrgm XMP packet of its own)
GainMapJpeg == <<255, 216>> \o SofSegment(2, 2) \o <<255, 217>>

GainMapJpegScan ==
    <<255, 216>> \o SofSegment(2, 2) \o Segment(218, <<1>>) \o <<66, 255, 0, 67>>
    \o <<255, 217>>

GainMapJpegNoSof == <<255, 216, 255, 217>>

\* the bytes of a chunk; off and size are what an MPF chunk declares
ChunkBytes(name, off, size) ==
    CASE name = "soi" -> <<255, 216>>
      [] name = "eoi" -> <<255, 217>>
      [] name = "ff" -> <<255>>
      [] name = "x" -> <<65>>
      [] name = "stuff" -> <<255, 0>>
      [] name = "rst" -> <<255, 208>>
      [] name = "com" -> Segment(254, <<255, 217>>)
      [] name = "app0" -> Segment(224, <<74, 70>>)
      [] name = "exif" -> Segment(225, EXIF_HEADER)
      [] name = "sof" -> SofSegment(4, 2)
      [] name = "sof_oddw" -> SofSegment(3, 2)
      [] name = "sof_oddh" -> SofSegment(4, 3)
      [] name = "sos" -> Segment(218, <<1>>)
      [] name = "sos0" -> <<255, 218, 0, 0>>
      [] name = "sos1" -> <<255, 218, 0, 1>>
      [] name = "badlen" -> <<255, 225, 0, 1>>
      [] name = "len0" -> <<255, 225, 0, 0>>
      [] name = "trunc" -> <<255, 225, 0>>
      [] name = "short" -> <<255, 254, 0, 9>>
      [] name = "xmp_hdr" -> Segment(225, XMP_NAMESPACE \o create_iso_xmp(GainMapMetadata_default))
      [] name = "xmp_plain" -> Segment(225, XMP_NAMESPACE \o PLAIN_XMP_PACKET)
      [] name = "xmp_bad" -> Segment(225, XMP_NAMESPACE \o BadValueXmp)
      [] name = "xmp_ext" -> Segment(225, EXT_XMP_NAMESPACE \o <<65>>)
      [] name = "mpf_exact" -> Segment(226, ConformantMpf(off, size))
      [] name = "mpf_zero" -> Segment(226, ConformantMpf(0, 0))
      [] name = "mpf_far" -> Segment(226, ConformantMpf(off + 1, size))
      [] name = "mpf_own" -> Segment(226, create_mpf_data(off, size))
      [] name = "gm" -> GainMapJpeg
      [] name = "gm_scan" -> GainMapJpegScan
      [] name = "gm_nosof" -> GainMapJpegNoSof
      [] name = "gm_xmp" ->
            <<255, 216>>
            \o Segment(225, XMP_NAMESPACE \o create_iso_xmp(GainMapMetadata_default))
            \o SofSegment(2, 2) \o <<255, 217>>

RECURSIVE Concat(_)
Concat(parts) == IF parts = <<>> THEN <<>> ELSE Head(parts) \o Concat(Tail(parts))

\* The buffer of a shape.  An MPF chunk declares what follows the first eoi
\* chunk: its position and its length (no chunk's length depends on them).
Assemble(sh) ==
    LET len(i) == Len(ChunkBytes(sh[i], 0, 0))
        RECURSIVE upto(_)
        upto(i) == IF i = 0 THEN 0 ELSE upto(i - 1) + len(i)
        eois == {i \in 1..Len(sh) : sh[i] = "eoi"}
        first == IF eois = {} THEN Len(sh) ELSE CHOOSE i \in eois : \A j \in eois : i <= j
        off == upto(first)
        size == upto(Len(sh)) - off
    IN  Concat([i \in 1..Len(sh) |-> ChunkBytes(sh[i], off, size)])

\* short buffers of every kind: up to MaxChunks chunks, after SOI or not
RawChunks ==
    {"soi", "eoi", "ff", "x", "stuff", "rst", "com", "sof", "sos",
     "sos0", "badlen", "trunc", "short"}

SeqsUpTo(S, n) == UNION {[1..k -> S] : k \in 0..n}

RawShapes ==
    SeqsUpTo(RawChunks, MaxChunks) \cup {<<"soi">> \o s : s \in SeqsUpTo(RawChunks, MaxChunks)}

\* whole files: a primary image with or without metadata, MPF, frame and
\* scan, followed or not by a second JPEG
Opt(name) == IF name = "none" THEN <<>> ELSE <<name>>

FileShapes ==
    {<<"soi">> \o Opt(a) \o Opt(m) \o Opt(f) \o <<"sof">> \o b \o <<"eoi">> \o Opt(t) :
        a \in {"none", "app0", "exif"},
        m \in {"none", "xmp_hdr", "xmp_plain", "xmp_bad"},
        f \in {"none", "mpf_exact", "mpf_zero", "mpf_far", "mpf_own"},
        b \in {<<>>, <<"sos", "x", "stuff", "rst", "x">>},
        t \in {"none", "gm", "gm_scan", "gm_nosof", "gm_xmp"}}

\* files whose primary image has no frame segment
FramelessShapes ==
    {<<"soi", "xmp_hdr", "eoi", "gm">>,
     <<"soi", "xmp_hdr", "sos", "x", "eoi", "gm_scan">>}

Shapes == RawShapes \cup FileShapes \cup FramelessShapes

\* the other arguments of encode_from_components
GainMaps == {GainMapJpeg, GainMapJpegScan, GainMapJpegNoSof}

EncodeOptions ==
    {[include_ultrahdr_v1 |-> TRUE, include_iso_metadata |-> TRUE],
     [include_ultrahdr_v1 |-> FALSE, include_iso_metadata |-> TRUE],
     [include_ultrahdr_v1 |-> FALSE, include_iso_metadata |-> FALSE]}

----------------------------------------------------------------------------
(* The state machine.  Every entry point is a pure function of its arguments *)
(* and the library keeps nothing between calls, so a run is one buffer and   *)
(* one call made on it.                                                      *)

NoCall == [fn |-> "none", gm |-> <<>>, options |-> <<>>]

Call(fn) == [fn |-> fn, gm |-> <<>>, options |-> <<>>]

Init ==
    /\ shape \in Shapes
    /\ data = Assemble(shape)
    /\ call = NoCall
    /\ ret = Ok(<<>>)
    /\ computer = MetadataComputer_new
    /\ samples = <<>>
    /\ writer = JpegWriter_empty

\* JpegParser::parse
ParseCall ==
    /\ call = NoCall
    /\ call' = Call("parse")
    /\ ret' = Parse(data)
    /\ UNCHANGED <<shape, data, computer, samples, writer>>

\* parse, then JpegWriter::new on its segments and scan data, then write
Rewritten(p) ==
    IF p.st # "ok" THEN p ELSE Ok(write(JpegWriter(p.val.segments, p.val.scan_data)))

reserialize(d) == Rewritten(Parse(d))

ReserializeCall ==
    /\ call = NoCall
    /\ call' = Call("reserialize")
    /\ ret' = reserialize(data)
    /\ UNCHANGED <<shape, data, computer, samples, writer>>

ProbeCall ==
    /\ call = NoCall
    /\ call' = Call("probe")
    /\ ret' = probe(data)
    /\ UNCHANGED <<shape, data, computer, samples, writer>>

HasGainmapMetadataCall ==
    /\ call = NoCall
    /\ call' = Call("has_gainmap_metadata")
    /\ ret' = has_gainmap_metadata(data)
    /\ UNCHANGED <<shape, data, computer, samples, writer>>

DecodeCall ==
    /\ call = NoCall
    /\ call' = Call("decode")
    /\ ret' = decode(data)
    /\ UNCHANGED <<shape, data, computer, samples, writer>>

ExtractBaseCall ==
    /\ call = NoCall
    /\ call' = Call("extract_base")
    /\ ret' = extract_base(data)
    /\ UNCHANGED <<shape, data, computer, samples, writer>>

ExtractMetadataCall ==
    /\ call = NoCall
    /\ call' = Call("extract_metadata")
    /\ ret' = extract_metadata(data)
    /\ UNCHANGED <<shape, data, computer, samples, writer>>

EncodeFromComponentsCall ==
    \E g \in GainMaps, o \in EncodeOptions :
        /\ call = NoCall
        /\ call' = [fn |-> "encode_from_components", gm |-> g, options |-> o]
        /\ ret' = encode_from_components(data, g, GainMapMetadata_default, o)
        /\ UNCHANGED <<shape, data, computer, samples, writer>>

Next ==
    \/ ParseCall
    \/ ReserializeCall
    \/ ProbeCall
    \/ HasGainmapMetadataCall
    \/ DecodeCall
    \/ ExtractBaseCall
    \/ ExtractMetadataCall
    \/ EncodeFromComponentsCall

Spec == Init /\ [][Next]_vars

----------------------------------------------------------------------------
(* The metadata functions of gainmap/metadata.rs.  validate_metadata is a   *)
(* pure function of one record; a MetadataComputer is an object that        *)
(* add_sample changes and compute reads.                                    *)

MaxSamples == 2

\* per-channel arrays: too short, too long, and three values
ArraysOver(values) == {<<0, 0>>, <<0, 0, 0, 0>>} \cup [1..3 -> values]

\* the default array with one channel replaced, and the two wrong lengths
OneChannelOver(values) ==
    {<<10000000, 10000000>>, <<10000000, 10000000, 10000000, 10000000>>}
    \cup {[<<10000000, 10000000, 10000000>> EXCEPT ![i] = v] : i \in 1..3, v \in values}

\* the records handed to validate_metadata
MetadataInputs ==
    {[version |-> <<49, 46, 48>>, base_rendition_is_hdr |-> FALSE,
      gain_map_min |-> lo, gain_map_max |-> hi, gamma |-> g,
      offset_sdr |-> os, offset_hdr |-> oh,
      hdr_capacity_min |-> c[1], hdr_capacity_max |-> c[2]] :
        lo \in ArraysOver({0, 10000000, F32.NAN}),
        hi \in OneChannelOver({0, F32.NAN}),
        g \in OneChannelOver({0, -10000000, F32.NAN, F32.INFINITY}),
        os \in {<<156250, 156250, 156250>>, <<156250, 156250>>},
        oh \in {<<156250, 156250, 156250>>, <<>>},
        c \in {<<0, 30000000>>, <<30000000, 0>>, <<F32.NAN, 0>>}}

\* samples whose channels vary independently: the SDR value is 0 or 3/64,
\* the HDR value NaN, 0 or 7/64, both offsets 1/64
ChannelSamples ==
    {[sdr |-> s, hdr |-> h, offset_sdr |-> 156250, offset_hdr |-> 156250] :
        s \in [1..3 -> {0, 468750}], h \in [1..3 -> {F32.NAN, 0, 1093750}]}

\* samples at the edges: an SDR value that is negative, infinite or NaN or
\* 7/64 (a ratio of 1/8 with an HDR value of 0), an HDR value that is
\* infinite or makes the numerator zero or negative
EdgeSamples ==
    {[sdr |-> <<s, s, s>>, hdr |-> <<h, h, h>>, offset_sdr |-> 156250, offset_hdr |-> oh] :
        s \in {-10000000, F32.INFINITY, F32.NAN, 0, 1093750},
        h \in {0, F32.INFINITY, F32.NEG_INFINITY, -156250, -10000000},
        oh \in {156250, F32.INFINITY}}

SampleInputs == ChannelSamples \cup EdgeSamples

\* the ratio of every channel is discarded or has a logarithm the model knows
SampleInDomain(x) ==
    \A i \in 1..3 :
        LET ratio == GainRatio(x.sdr[i], x.hdr[i], x.offset_sdr, x.offset_hdr)
        IN  RatioAccepted(ratio) =>
                IsPow2Ratio(ratio.num, IF ratio.den = EPSILON THEN 10000000 ELSE ratio.den, 40)

TargetCapacities == {10000000, 30000000}

InitMetadata ==
    /\ shape = <<>>
    /\ data = <<>>
    /\ call = NoCall
    /\ ret = Ok(<<>>)
    /\ computer = MetadataComputer_new
    /\ samples = <<>>
    /\ writer = JpegWriter_empty

\* validate_metadata
ValidateMetadataCall ==
    /\ call = NoCall
    /\ \E m \in MetadataInputs :
        /\ call' = [fn |-> "validate_metadata", metadata |-> m]
        /\ ret' = validate_metadata(m)
    /\ UNCHANGED <<shape, data, computer, samples, writer>>

\* computer.add_sample(sdr, hdr, offset_sdr, offset_hdr)
AddSampleCall ==
    /\ call.fn \in {"none", "add_sample"}
    /\ Len(samples) < MaxSamples
    /\ \E x \in SampleInputs :
        /\ SampleInDomain(x)
        /\ call' = [fn |-> "add_sample", sample |-> x]
        /\ computer' = add_sample(computer, x.sdr, x.hdr, x.offset_sdr, x.offset_hdr)
        /\ samples' = Append(samples, x)
    /\ ret' = Ok(<<>>)
    /\ UNCHANGED <<shape, data, writer>>

\* computer.compute(target_capacity)
ComputeCall ==
    /\ call.fn \in {"none", "add_sample"}
    /\ \E t \in TargetCapacities :
        /\ call' = [fn |-> "compute", target_capacity |-> t]
        /\ ret' = Ok(compute(computer, t))
    /\ UNCHANGED <<shape, data, computer, samples, writer>>

NextMetadata ==
    \/ ValidateMetadataCall
    \/ AddSampleCall
    \/ ComputeCall

SpecMetadata == InitMetadata /\ [][NextMetadata]_vars

----------------------------------------------------------------------------
(* The XMP writers and the parser, one after the other (jpeg/xmp.rs) *)

\* version texts: 1.0, the empty text and 1&0
VersionTexts == {<<49, 46, 48>>, <<>>, <<49, 38, 48>>}

\* metadata that validate_metadata accepts: equal and differing channels,
\* values of six decimals and of seven (log2 3 = 1.5849625, log2 5 =
\* 2.3219281), an infinite gamma, and the NaN gamma validate_metadata lets by
XmpMetadataInputs ==
    {m \in [version : VersionTexts,
            base_rendition_is_hdr : BOOLEAN,
            gain_map_min : {<<0, 0, 0>>, <<-10000000, 0, 5000000>>},
            gain_map_max : {<<30000000, 30000000, 30000000>>,
                            <<10000000, 20000000, 30000000>>,
                            <<15849625, 15849625, 15849625>>},
            gamma : {<<10000000, 10000000, 10000000>>,
                     <<10000000, F32.INFINITY, 22000000>>,
                     <<10000000, 10000000, F32.NAN>>},
            offset_sdr : {<<156250, 156250, 156250>>},
            offset_hdr : {<<156250, 156250, 156250>>, <<0, 156250, 0>>},
            hdr_capacity_min : {0, 10000000},
            hdr_capacity_max : {30000000, 23219281}] :
        validate_metadata(m).st = "ok"}

InitXmp ==
    /\ shape = <<>>
    /\ data = <<>>
    /\ call = NoCall
    /\ ret = Ok(<<>>)
    /\ computer = MetadataComputer_new
    /\ samples = <<>>
    /\ writer = JpegWriter_empty

CreateIsoXmpCall ==
    /\ call = NoCall
    /\ \E m \in XmpMetadataInputs :
          /\ call' = [fn |-> "create_iso_xmp", metadata |-> m]
          /\ ret' = Ok(create_iso_xmp(m))
    /\ UNCHANGED <<shape, data, computer, samples, writer>>

CreateUltrahdrV1XmpCall ==
    /\ call = NoCall
    /\ \E m \in XmpMetadataInputs :
          /\ call' = [fn |-> "create_ultrahdr_v1_xmp", metadata |-> m]
          /\ ret' = Ok(create_ultrahdr_v1_xmp(m, XmpValue.image_jpeg))
    /\ UNCHANGED <<shape, data, computer, samples, writer>>

\* XmpParser::parse on the packet the writer has returned
XmpParseCall ==
    /\ call.fn \in {"create_iso_xmp", "create_ultrahdr_v1_xmp"}
    /\ call' = [fn |-> "XmpParser_parse", metadata |-> call.metadata, writer |-> call.fn]
    /\ data' = ret.val
    /\ ret' = XmpParser_parse(ret.val)
    /\ UNCHANGED <<shape, computer, samples, writer>>

NextXmp ==
    \/ CreateIsoXmpCall
    \/ CreateUltrahdrV1XmpCall
    \/ XmpParseCall

SpecXmp == InitXmp /\ [][NextXmp]_vars

----------------------------------------------------------------------------
(* gainmap/math.rs: encode_gain and decode_gain in f32 arithmetic.  Here an  *)
(* f32 is followed to its last bit: a significand of 24 bits, every result   *)
(* rounded to the nearest f32, ties to even.  The ratio is a power of two,   *)
(* 2^k, whose log2 is the integer k, the bounds are integers and gamma is 1, *)
(* so that powf(x, 1.0) is x.                                                *)

\* 2^n
RECURSIVE Pow2(_)
Pow2(n) == IF n = 0 THEN 1 ELSE 2 * Pow2(n - 1)

\* the number of low bits n has beyond a significand of 24 bits
RECURSIVE ExcessBits(_)
ExcessBits(n) == IF n < 16777216 THEN 0 ELSE 1 + ExcessBits(n \div 2)

\* n / den rounded to the nearest integer, ties to even
DivRoundEven(n, den) ==
    LET q == n \div den
        rem == n % den
    IN  IF 2 * rem > den \/ (2 * rem = den /\ q % 2 = 1) THEN q + 1 ELSE q

\* the integer n >= 0 rounded to an f32
f32_round(n) == LET r == ExcessBits(n) IN DivRoundEven(n, Pow2(r)) * Pow2(r)

\* the shift s for which a * 2^s / b, a > 0, has a significand of 24 bits
RECURSIVE QuotientShift(_, _, _)
QuotientShift(a, b, s) == IF a >= 8388608 * b THEN s ELSE QuotientShift(2 * a, b, s + 1)

\* a / b in f32 for integers 0 <= a <= b: the f32 m / 2^s
f32_div(a, b) ==
    IF a = 0 THEN [m |-> 0, s |-> 0]
    ELSE LET s == QuotientShift(a, b, 0)
         IN  [m |-> DivRoundEven(a * Pow2(s), b), s |-> s]

\* encode_gain(2^k, min_gain, max_gain, 1.0): log_ratio is k, the difference
\* and the width are exact, the quotient is rounded; a width of 0 becomes
\* EPSILON, under a numerator that is 0 for bounds that contain k
encode_gain(k, min_gain, max_gain) ==
    IF max_gain = min_gain THEN f32_div(0, 1)
    ELSE f32_div(k - min_gain, max_gain - min_gain)

\* degamma * (max_gain - min_gain) without min_gain added
DecodedLog2_WithoutMin(encoded, min_gain, max_gain) ==
    LET product == f32_round(encoded.m * (max_gain - min_gain))
    IN  IF encoded.s <= 24 THEN product * Pow2(24 - encoded.s)
        ELSE product \div Pow2(encoded.s - 24)

\* degamma * (max_gain - min_gain) + min_gain in units of 2^-24: the product
\* rounded, then the sum rounded
DecodedLog2(encoded, min_gain, max_gain) ==
    LET product == f32_round(encoded.m * (max_gain - min_gain))
        product24 == IF encoded.s <= 24 THEN product * Pow2(24 - encoded.s)
                     ELSE product \div Pow2(encoded.s - 24)
        sum == product24 + min_gain * 16777216
    IN  IF sum < 0 THEN -f32_round(-sum) ELSE f32_round(sum)

\* the integer nearest to a value in units of 2^-24
NearestInteger(x24) == (x24 + 8388608) \div 16777216

\* 2.0_f32.powf(log_ratio), for a log_ratio that is an integer j plus a small
\* d * 2^-24: the value is 2^j * (1 + ln 2 * d * 2^-24), which lies off * 2^(j-24)
\* from 2^j for off = 0.693147 * d.  The result is an f32 next to the value:
\* below 2^j the f32 are at every off, above 2^j at every even off.
PowfOffsets(d) ==
    LET x == 693147 * d
    IN  IF d = 0 THEN {0}
        ELSE IF d < 0 THEN {x \div 1000000, (x \div 1000000) + 1}
        ELSE {2 * (x \div 2000000), 2 * (x \div 2000000) + 2}

\* decode_gain(encoded, min_gain, max_gain, 1.0): the f32 2^exp + off * 2^(exp-24)
decode_gain(encoded, min_gain, max_gain) ==
    LET log_ratio == DecodedLog2(encoded, min_gain, max_gain)
        j == NearestInteger(log_ratio)
    IN  {[exp |-> j, off |-> o] : o \in PowfOffsets(log_ratio - j * 16777216)}

\* the exponents of the ratios 0.5, 1, 2, 4, 8
RatioExponents == -1..3

\* the bounds reach from -MaxGainBelow to MaxGainAbove
MaxGainBelow == 96
MaxGainAbove == 24

GainInputs ==
    {[k |-> k, min_gain |-> lo, max_gain |-> hi] :
        k \in RatioExponents, lo \in (-MaxGainBelow)..3, hi \in (-1)..MaxGainAbove}

InitGain ==
    /\ shape = <<>>
    /\ data = <<>>
    /\ call = NoCall
    /\ ret = Ok(<<>>)
    /\ computer = MetadataComputer_new
    /\ samples = <<>>
    /\ writer = JpegWriter_empty

EncodeGainCall ==
    /\ call = NoCall
    /\ \E x \in GainInputs :
          /\ x.min_gain <= x.k /\ x.k <= x.max_gain
          /\ call' = [fn |-> "encode_gain", k |-> x.k,
                      min_gain |-> x.min_gain, max_gain |-> x.max_gain]
          /\ ret' = Ok(encode_gain(x.k, x.min_gain, x.max_gain))
    /\ UNCHANGED <<shape, data, computer, samples, writer>>

DecodeGainCall ==
    /\ call.fn = "encode_gain"
    /\ \E decoded \in decode_gain(ret.val, call.min_gain, call.max_gain) :
          /\ call' = [fn |-> "decode_gain", k |-> call.k, encoded |-> ret.val,
                      min_gain |-> call.min_gain, max_gain |-> call.max_gain]
          /\ ret' = Ok(decoded)
    /\ UNCHANGED <<shape, data, computer, samples, writer>>

NextGain ==
    \/ EncodeGainCall
    \/ DecodeGainCall

SpecGain == InitGain /\ [][NextGain]_vars

----------------------------------------------------------------------------
(* The gain-map functions on buffers of declared and of other sizes          *)

\* widths and heights: none, a few, and 2^16
Dimensions == {0, 1, 2, 3, 65536}

\* buffer lengths: the sizes of the small images and some that fit none
SdrLengths == {0, 1, 3, 6, 12, 18, 27}
GainMapLengths == {0, 1, 2, 3, 4, 6, 12}

\* an SDR byte and an HDR float of the pixels: black under black, black under
\* 1/64 and 3/64 (ratios 2 and 4), white under white, black under NaN
PixelValues ==
    {[sdr |-> 0, hdr |-> 0], [sdr |-> 0, hdr |-> 156250], [sdr |-> 0, hdr |-> 468750],
     [sdr |-> 255, hdr |-> 10000000], [sdr |-> 0, hdr |-> F32.NAN]}

ComputeInputs ==
    [width : Dimensions, height : Dimensions, sdr_len : SdrLengths, hdr_len : {0, 3, 12, 18},
     pixel : PixelValues, gain_map_scale : {0, 1, 2}, overflow_checks : BOOLEAN]

\* metadata with its arrays whole, and with a gamma of two channels
ApplyMetadata ==
    {GainMapMetadata_default,
     [GainMapMetadata_default EXCEPT !.gamma = <<10000000, 10000000>>]}

ApplyInputs ==
    [width : Dimensions, height : Dimensions, sdr_len : SdrLengths,
     gm_width : {0, 1, 2, 65536}, gm_height : {0, 1, 2, 65536}, gm_len : GainMapLengths,
     metadata : ApplyMetadata, overflow_checks : BOOLEAN]

InitGainMap ==
    /\ shape = <<>>
    /\ data = <<>>
    /\ call = NoCall
    /\ ret = Ok(<<>>)
    /\ computer = MetadataComputer_new
    /\ samples = <<>>
    /\ writer = JpegWriter_empty

ComputeGainMapCall ==
    /\ call = NoCall
    /\ \E x \in ComputeInputs :
          /\ call' = [fn |-> "compute_gain_map", channels |-> 1, args |-> x]
          /\ ret' = compute_gain_map(Buffer(x.sdr_len, x.pixel.sdr),
                                     Buffer(x.hdr_len, x.pixel.hdr),
                                     x.width, x.height, 30000000, x.gain_map_scale,
                                     x.overflow_checks)
    /\ UNCHANGED <<shape, data, computer, samples, writer>>

ComputeGainMapRgbCall ==
    /\ call = NoCall
    /\ \E x \in ComputeInputs :
          /\ call' = [fn |-> "compute_gain_map_rgb", channels |-> 3, args |-> x]
          /\ ret' = compute_gain_map_rgb(Buffer(x.sdr_len, x.pixel.sdr),
                                         Buffer(x.hdr_len, x.pixel.hdr),
                                         x.width, x.height, 30000000, x.gain_map_scale,
                                         x.overflow_checks)
    /\ UNCHANGED <<shape, data, computer, samples, writer>>

ApplyGainMapCall ==
    /\ call = NoCall
    /\ \E x \in ApplyInputs :
          /\ call' = [fn |-> "apply_gain_map", channels |-> 1, args |-> x]
          /\ ret' = apply_gain_map(Buffer(x.sdr_len, 0), Buffer(x.gm_len, 128), x.metadata,
                                   x.width, x.height, x.gm_width, x.gm_height,
                                   x.overflow_checks)
    /\ UNCHANGED <<shape, data, computer, samples, writer>>

ApplyGainMapRgbCall ==
    /\ call = NoCall
    /\ \E x \in ApplyInputs :
          /\ call' = [fn |-> "apply_gain_map_rgb", channels |-> 3, args |-> x]
          /\ ret' = apply_gain_map_rgb(Buffer(x.sdr_len, 0), Buffer(x.gm_len, 128), x.metadata,
                                       x.width, x.height, x.gm_width, x.gm_height,
                                       x.overflow_checks)
    /\ UNCHANGED <<shape, data, computer, samples, writer>>

NextGainMap ==
    \/ ComputeGainMapCall
    \/ ComputeGainMapRgbCall
    \/ ApplyGainMapCall
    \/ ApplyGainMapRgbCall

SpecGainMap == InitGainMap /\ [][NextGainMap]_vars

----------------------------------------------------------------------------
(* ultrahdr/encoder.rs: encode.  The JPEG codec is the image crate's: what   *)
(* it makes of the SDR JPEG, and whether it encodes the gain map, are        *)
(* inputs of the model.                                                      *)

validate_options(options) ==
    IF options.base_quality = 0 \/ options.base_quality > 100 THEN Err("InvalidQuality")
    ELSE IF options.gain_map_quality = 0 \/ options.gain_map_quality > 100
         THEN Err("InvalidQuality")
    ELSE IF f32_le(options.target_hdr_capacity, 0) THEN Err("InvalidHdrCapacity")
    ELSE Ok(<<>>)

\* the JPEG the codec makes of a gain map: a frame of its dimensions
EncodedGainMapJpeg(width, height) == <<255, 216>> \o SofSegment(width, height) \o <<255, 217>>

\* encode_gain_map_jpeg: ImageBuffer::from_raw fails on a buffer shorter than
\* width x height, then the codec encodes or fails
encode_gain_map_jpeg(gain_map, width, height, codec_encodes) ==
    IF gain_map.len < width * height THEN Err("EncodeError")
    ELSE IF ~codec_encodes THEN Err("DecodeError")
    ELSE Ok(EncodedGainMapJpeg(width, height))

\* encode from the gain map on, the size checks passed
EncodeGainMap(sdr_jpeg, sdr_rgb, hdr_linear, width, height, options, codec_encodes, overflow_checks) ==
    LET computed == compute_gain_map(sdr_rgb, hdr_linear, width, height,
                                     options.target_hdr_capacity, options.gain_map_scale,
                                     overflow_checks)
        scale == IF options.gain_map_scale > 1 THEN options.gain_map_scale ELSE 1
        gain_map_jpeg == encode_gain_map_jpeg(computed.val.gain_map,
                                              DivCeil(width, scale), DivCeil(height, scale),
                                              codec_encodes)
    IN  IF computed.st # "ok" THEN computed
        ELSE IF gain_map_jpeg.st # "ok" THEN gain_map_jpeg
        ELSE create_ultrahdr_jpeg(sdr_jpeg, gain_map_jpeg.val, computed.val.metadata, options)

\* encode; decoded is the result of decode_jpeg_to_rgb(sdr_jpeg)
encode(sdr_jpeg, hdr_linear, options, decoded, codec_encodes, overflow_checks) ==
    LET valid == validate_options(options)
        parser == Parse(sdr_jpeg)
        dims == get_dimensions(parser.val)
        width == dims.val.width
        height == dims.val.height
        expected_size == width * height * 3
    IN  IF valid.st # "ok" THEN valid
        ELSE IF parser.st # "ok" THEN parser
        ELSE IF ~dims.some THEN Err("InvalidJpeg")
        ELSE IF width % 2 # 0 THEN Err("InvalidDimensions")
        ELSE IF height % 2 # 0 THEN Err("InvalidDimensions")
        ELSE IF decoded.st # "ok" THEN decoded
        ELSE IF decoded.val.len # expected_size THEN Err("InvalidDimensions")
        ELSE IF hdr_linear.len # expected_size
             THEN (IF height = 0 THEN Panic ELSE Err("DimensionMismatch"))
        ELSE EncodeGainMap(sdr_jpeg, decoded.val, hdr_linear, width, height, options,
                           codec_encodes, overflow_checks)

\* SDR JPEGs: none, no JPEG, without a frame, cut short, with a bad SOS
\* length, 4x2 with and without scan and XMP, 3x2 and 4x3
EncodeShapes ==
    {<<>>, <<"x">>, <<"soi">>, <<"soi", "eoi">>, <<"soi", "trunc">>, <<"soi", "sos0">>,
     <<"soi", "sof", "short">>, <<"soi", "sof", "eoi">>,
     <<"soi", "app0", "sof", "sos", "x", "stuff", "eoi">>,
     <<"soi", "xmp_hdr", "sof", "sos", "x", "eoi">>,
     <<"soi", "sof_oddw", "eoi">>, <<"soi", "sof_oddh", "sos", "x", "eoi">>}

UltraHdrEncodeOptions ==
    [base_quality : {0, 85, 101}, gain_map_quality : {0, 75},
     target_hdr_capacity : {0, 30000000, F32.NAN},
     include_iso_metadata : BOOLEAN, include_ultrahdr_v1 : BOOLEAN,
     gain_map_scale : {1, 2}]

\* HDR buffers: of the 4x2 image, shorter, and empty
HdrBuffers == {Buffer(24, 156250), Buffer(24, 0), Buffer(12, 0), Buffer(0, 0)}

\* what decode_jpeg_to_rgb returns: an error, the pixels of the 4x2 image,
\* or pixels of another number
DecodedSdr == {Err("DecodeError"), Ok(Buffer(24, 0)), Ok(Buffer(12, 0))}

InitEncode ==
    /\ shape \in EncodeShapes
    /\ data = Assemble(shape)
    /\ call = NoCall
    /\ ret = Ok(<<>>)
    /\ computer = MetadataComputer_new
    /\ samples = <<>>
    /\ writer = JpegWriter_empty

EncodeCall ==
    /\ call = NoCall
    /\ \E o \in UltraHdrEncodeOptions, h \in HdrBuffers, d \in DecodedSdr,
          e \in BOOLEAN, c \in BOOLEAN :
          /\ call' = [fn |-> "encode", options |-> o, hdr_linear |-> h, decoded |-> d,
                      codec_encodes |-> e, overflow_checks |-> c]
          /\ ret' = encode(data, h, o, d, e, c)
    /\ UNCHANGED <<shape, data, computer, samples, writer>>

NextEncode == EncodeCall

SpecEncode == InitEncode /\ [][NextEncode]_vars

----------------------------------------------------------------------------
(* The MPF payload: create_mpf_data builds it from an offset and a size,    *)
(* parse_mpf_for_gainmap reads them back.  Both are pure functions; the     *)
(* u32 arguments are drawn from the values below 2^31.                      *)

MpfValues == {0, 1, 255, 256, 65535, 65536, 16777215, 16777216, 2147483647}

InitMpf ==
    /\ shape = <<>>
    /\ data = <<>>
    /\ \E o \in MpfValues, s \in MpfValues :
          call = [fn |-> "none", gain_map_offset |-> o, gain_map_size |-> s]
    /\ ret = None
    /\ computer = MetadataComputer_new
    /\ samples = <<>>
    /\ writer = JpegWriter_empty

CreateMpfDataCall ==
    /\ call.fn = "none"
    /\ call' = [call EXCEPT !.fn = "create_mpf_data"]
    /\ data' = create_mpf_data(call.gain_map_offset, call.gain_map_size)
    /\ UNCHANGED <<shape, ret, computer, samples, writer>>

ParseMpfForGainmapCall ==
    /\ call.fn = "create_mpf_data"
    /\ call' = [call EXCEPT !.fn = "parse_mpf_for_gainmap"]
    /\ ret' = parse_mpf_for_gainmap(data)
    /\ UNCHANGED <<shape, data, computer, samples, writer>>

NextMpf ==
    \/ CreateMpfDataCall
    \/ ParseMpfForGainmapCall

SpecMpf == InitMpf /\ [][NextMpf]_vars

----------------------------------------------------------------------------
(* A JpegWriter: created empty or from a parsed JPEG, changed by add_segment, *)
(* insert_segment, add_xmp_segment, add_extended_xmp_segment,                *)
(* add_mpf_segment and the two remove functions, and read by write.  call    *)
(* keeps the name of the last operation, the number of operations made and   *)
(* the length of the payload or packet it was given.                         *)

\* the operations made on one writer
MaxOps == 2

\* the largest payload whose length field fits 16 bits
MAX_PAYLOAD == 65533

\* n bytes of value b
Bytes(n, b) == [i \in 1..n |-> b]

\* the JPEGs a writer is created from by JpegWriter::new
WriterShapes ==
    {<<"soi", "eoi">>,
     <<"soi", "sof", "eoi">>,
     <<"soi", "app0", "exif", "sof", "sos", "x", "eoi">>,
     <<"soi", "exif", "xmp_plain", "com", "eoi">>,
     <<"soi", "app0", "com", "mpf_zero", "eoi">>}

WritersNew ==
    {JpegWriter(Parse(Assemble(sh)).val.segments, Parse(Assemble(sh)).val.scan_data) :
        sh \in WriterShapes}

\* the segments handed to add_segment and insert_segment
SegmentInputs ==
    {JpegSegment(Marker("Soi", 0), <<>>, 0),
     JpegSegment(Marker("App0", 0), <<74, 70>>, 0),
     JpegSegment(Marker("App1", 0), EXIF_HEADER, 0),
     JpegSegment(Marker("Com", 0), <<65>>, 0)}

\* a segment whose payload is one byte too long for its length field
OversizedSegment == JpegSegment(Marker("Com", 0), Bytes(MAX_PAYLOAD + 1, 65), 0)

\* the lengths of the packets handed to add_xmp_segment and
\* add_extended_xmp_segment: small, the largest add_xmp_segment takes, and
\* one byte more
XmpLengths == {1, MAX_PAYLOAD - Len(XMP_NAMESPACE), MAX_PAYLOAD - Len(XMP_NAMESPACE) + 1}

\* a 32-character digest
Md5Digest == Bytes(32, 48)

WriterCall(fn, len) == [fn |-> fn, ops |-> call.ops + 1, len |-> len]

InitWriter ==
    /\ shape = <<>>
    /\ data = <<>>
    /\ call = [fn |-> "none", ops |-> 0, len |-> 0]
    /\ ret = Ok(<<>>)
    /\ computer = MetadataComputer_new
    /\ samples = <<>>
    /\ writer \in {JpegWriter_empty} \cup WritersNew

\* the state after a call that returned r: the writer r holds, or the writer
\* as it was when the call failed
Applied(fn, len, r) ==
    /\ call' = WriterCall(fn, len)
    /\ ret' = IF r.st = "ok" THEN Ok(<<>>) ELSE r
    /\ writer' = IF r.st = "ok" THEN r.val ELSE writer
    /\ UNCHANGED <<shape, data, computer, samples>>

AddSegmentCall ==
    /\ call.ops < MaxOps
    /\ \E s \in SegmentInputs \cup {OversizedSegment} :
          Applied("add_segment", Len(s.data), Ok(add_segment(writer, s)))

InsertSegmentCall ==
    /\ call.ops < MaxOps
    /\ \E s \in SegmentInputs, index \in 0..(Len(writer.segments) + 1) :
          Applied("insert_segment", Len(s.data), insert_segment(writer, index, s))

AddXmpSegmentCall ==
    /\ call.ops < MaxOps
    /\ \E n \in XmpLengths :
          Applied("add_xmp_segment", n, add_xmp_segment(writer, Bytes(n, 65)))

AddExtendedXmpSegmentCall ==
    /\ call.ops < MaxOps
    /\ \E n \in XmpLengths :
          Applied("add_extended_xmp_segment", n,
                  add_extended_xmp_segment(writer, Bytes(n, 65), Md5Digest, 0, n))

AddMpfSegmentCall ==
    /\ call.ops < MaxOps
    /\ Applied("add_mpf_segment", 0, add_mpf_segment(writer, 0, 0))

RemoveXmpSegmentsCall ==
    /\ call.ops < MaxOps
    /\ Applied("remove_xmp_segments", 0, Ok(remove_xmp_segments(writer)))

RemoveMpfSegmentsCall ==
    /\ call.ops < MaxOps
    /\ Applied("remove_mpf_segments", 0, Ok(remove_mpf_segments(writer)))

WriteCall ==
    /\ call.fn # "write"
    /\ call' = [call EXCEPT !.fn = "write"]
    /\ ret' = Ok(write(writer))
    /\ UNCHANGED <<shape, data, computer, samples, writer>>

NextWriter ==
    \/ AddSegmentCall
    \/ InsertSegmentCall
    \/ AddXmpSegmentCall
    \/ AddExtendedXmpSegmentCall
    \/ AddMpfSegmentCall
    \/ RemoveXmpSegmentsCall
    \/ RemoveMpfSegmentsCall
    \/ WriteCall

SpecWriter == InitWriter /\ [][NextWriter]_vars

----------------------------------------------------------------------------
(* The container round trip: encode_from_components on an SDR JPEG, a       *)
(* gain-map JPEG, metadata and options, then decode on the file returned.   *)
(* After the second call data is the file and ret what decode made of it.   *)

\* SDR JPEGs: SOI, optional APP0 or Exif, optional XMP, optional MPF, one
\* frame, one scan with a stuffed byte and a restart marker, EOI
ContainerShapes ==
    {<<"soi">> \o Opt(a) \o Opt(m) \o Opt(f) \o <<"sof", "sos", "x", "stuff", "rst", "x", "eoi">> :
        a \in {"none", "exif"},
        m \in {"none", "xmp_plain"},
        f \in {"none", "mpf_own"}}

\* a version text that alone fills an APP1 segment
LongVersion == Bytes(MAX_PAYLOAD - Len(XMP_NAMESPACE), 49)

\* metadata validate_metadata accepts: the default, one with differing
\* channels and an escaped version text, one with the long version text
ContainerMetadata ==
    {m \in {GainMapMetadata_default,
            [GainMapMetadata_default EXCEPT !.version = <<49, 38, 48>>,
                                            !.gain_map_min = <<-10000000, 0, 5000000>>],
            [GainMapMetadata_default EXCEPT !.version = LongVersion]} :
        validate_metadata(m).st = "ok"}

InitContainer ==
    /\ shape \in ContainerShapes
    /\ data = Assemble(shape)
    /\ call = [fn |-> "none", gm |-> <<>>, options |-> <<>>, metadata |-> <<>>]
    /\ ret = Ok(<<>>)
    /\ computer = MetadataComputer_new
    /\ samples = <<>>
    /\ writer = JpegWriter_empty

EncodeComponentsCall ==
    /\ call.fn = "none"
    /\ \E g \in GainMaps, o \in EncodeOptions, m \in ContainerMetadata :
          /\ call' = [fn |-> "encode_from_components", gm |-> g, options |-> o,
                      metadata |-> m]
          /\ ret' = encode_from_components(data, g, m, o)
    /\ UNCHANGED <<shape, data, computer, samples, writer>>

DecodeEncodedCall ==
    /\ call.fn = "encode_from_components"
    /\ ret.st = "ok"
    /\ call' = [call EXCEPT !.fn = "decode"]
    /\ data' = ret.val
    /\ ret' = decode(ret.val)
    /\ UNCHANGED <<shape, computer, samples, writer>>

NextContainer ==
    \/ EncodeComponentsCall
    \/ DecodeEncodedCall

SpecContainer == InitContainer /\ [][NextContainer]_vars

----------------------------------------------------------------------------
(* The loops of JpegParser::parse and find_primary_eoi_offset, one         *)
(* iteration a step.  call holds the locals of the running function: pc is *)
(* the loop that runs next, p the locals of parse (p.cur the cursor), mb   *)
(* marker_byte, pos the position of the walker, at the position where the  *)
(* running iteration of the outer loop began.  last names the loop an      *)
(* iteration of which the last step completed ("none" when it completed    *)
(* none), from the read position that iteration began at, and left says    *)
(* that the iteration ended its loop (a break, a return, in_scan = false). *)

LoopChunks ==
    {"soi", "eoi", "ff", "x", "stuff", "rst", "com", "sos", "sos0", "len0",
     "badlen", "trunc"}

\* buffers that begin with SOI, and three that parse rejects at once
LoopShapes ==
    {<<"soi">> \o s : s \in SeqsUpTo(LoopChunks, MaxChunks)}
        \cup {<<>>, <<"ff">>, <<"x", "eoi">>}

LoopCall(fn, pc, p, pos) ==
    [fn |-> fn, pc |-> pc, p |-> p, mb |-> 0, pos |-> pos, at |-> 0,
     last |-> "none", from |-> 0, left |-> FALSE]

InitLoops ==
    /\ shape \in LoopShapes
    /\ data = Assemble(shape)
    /\ call = LoopCall("none", "none", ParseStart, 0)
    /\ ret = Ok(<<>>)
    /\ computer = MetadataComputer_new
    /\ samples = <<>>
    /\ writer = JpegWriter_empty

\* the steps of a call leave everything but call and ret alone
Returns(c, r) ==
    /\ call' = [c EXCEPT !.pc = "done"]
    /\ ret' = r

Continues(c) ==
    /\ call' = c
    /\ UNCHANGED ret

\* parse up to its loop: the length and magic checks, SOI pushed, cursor at 2
ParseEnter ==
    /\ call.fn = "none"
    /\ IF Len(data) < 2 \/ data[1] # 255 \/ data[2] # 216
       THEN Returns(LoopCall("parse", "done", ParseStart, 0), Err("InvalidJpeg"))
       ELSE Continues(LoopCall("parse", "segment", ParseStart, 0))
    /\ UNCHANGED <<shape, data, computer, samples, writer>>

\* the head of an iteration of the outer loop: the end test and the read of
\* one byte
SegmentStep ==
    /\ call.fn = "parse" /\ call.pc = "segment"
    /\ LET pos == call.p.cur
           c == [call EXCEPT !.at = pos, !.last = "segment", !.from = pos]
       IN  IF pos >= Len(data)
           THEN Returns([c EXCEPT !.left = TRUE], ParserOf([call.p EXCEPT !.st = "ok"]))
           ELSE IF At(data, pos) # 255
           THEN Continues([c EXCEPT !.p.cur = pos + 1, !.left = FALSE])
           ELSE Continues([c EXCEPT !.p.cur = pos + 1, !.mb = 255, !.pc = "padding",
                                    !.last = "none"])
    /\ UNCHANGED <<shape, data, computer, samples, writer>>

\* one iteration of the loop that skips 0xFF padding
PaddingStep ==
    /\ call.fn = "parse" /\ call.pc = "padding"
    /\ LET cur == call.p.cur
           c == [call EXCEPT !.last = "padding", !.from = cur]
       IN  IF cur >= Len(data)
           THEN Continues([c EXCEPT !.pc = "marker", !.left = TRUE])
           ELSE LET b == At(data, cur) IN
                Continues([c EXCEPT !.p.cur = cur + 1, !.mb = b,
                                    !.pc = IF b # 255 THEN "marker" ELSE "padding",
                                    !.left = (b # 255)])
    /\ UNCHANGED <<shape, data, computer, samples, writer>>

\* the SOS arm up to the scan loop: length, header, scan_offset, in_scan
SosHeader(d, p, pos) ==
    LET c == p.cur IN
    IF c + 2 > Len(d) THEN [p EXCEPT !.st = "err", !.err = "IoError"]
    ELSE
        LET len == u16_from_be_bytes(At(d, c), At(d, c + 1)) IN
        IF len < 2 THEN [p EXCEPT !.st = "panic"]
        ELSE IF c + 2 + (len - 2) > Len(d) THEN [p EXCEPT !.st = "err", !.err = "IoError"]
        ELSE
            LET after == c + 2 + (len - 2) IN
            [p EXCEPT !.cur = after,
                      !.segments = Append(@, JpegSegment(Marker("Sos", 0), Slice(d, c + 2, after), pos)),
                      !.scan_offset = after,
                      !.in_scan = TRUE]

\* the match on the marker
MarkerArm(d, p, pos, mb) ==
    LET marker == from_byte(mb) IN
    CASE marker.tag = "Eoi" ->
            [p EXCEPT !.segments = Append(@, JpegSegment(marker, <<>>, p.cur - 2)),
                      !.st = "ok"]
      [] marker.tag = "Soi" -> p
      [] marker.tag = "Sos" -> SosHeader(d, p, pos)
      [] OTHER ->
            IF has_length(marker) THEN ParseLengthSegment(d, p, marker, pos, p.cur)
            ELSE [p EXCEPT !.segments = Append(@, JpegSegment(marker, <<>>, pos))]

MarkerStep ==
    /\ call.fn = "parse" /\ call.pc = "marker"
    /\ LET q == MarkerArm(data, call.p, call.at, call.mb)
           c == [call EXCEPT !.p = q, !.last = "segment", !.from = call.at]
       IN  IF q.st # "run" THEN Returns([c EXCEPT !.left = TRUE], ParserOf(q))
           ELSE IF q.in_scan THEN Continues([c EXCEPT !.pc = "scan", !.last = "none"])
           ELSE Continues([c EXCEPT !.pc = "segment", !.left = FALSE])
    /\ UNCHANGED <<shape, data, computer, samples, writer>>

\* one iteration of the scan loop
ScanStep ==
    /\ call.fn = "parse" /\ call.pc = "scan"
    /\ call.p.in_scan /\ call.p.cur < Len(data)
    /\ LET cur == call.p.cur
           q == ScanIter(data, call.p)
           break == At(data, cur) = 255 /\ cur + 1 >= Len(data)
       IN  Continues([call EXCEPT !.p = q, !.last = "scan", !.from = cur,
                                  !.left = (break \/ ~q.in_scan)])
    /\ UNCHANGED <<shape, data, computer, samples, writer>>

\* the scan loop has ended: the iteration of the outer loop ends with it
ScanExit ==
    /\ call.fn = "parse" /\ call.pc = "scan"
    /\ ~(call.p.in_scan /\ call.p.cur < Len(data))
    /\ Continues([call EXCEPT !.p.in_scan = FALSE, !.pc = "segment",
                              !.last = "segment", !.from = call.at, !.left = FALSE])
    /\ UNCHANGED <<shape, data, computer, samples, writer>>

\* find_primary_eoi_offset up to its loop; data.len() - 1 overflows on an
\* empty buffer, and either build panics
WalkEnter ==
    /\ call.fn = "none"
    /\ IF Len(data) = 0
       THEN Returns(LoopCall("find_primary_eoi_offset", "done", ParseStart, 2), Panic)
       ELSE Continues(LoopCall("find_primary_eoi_offset", "walk", ParseStart, 2))
    /\ UNCHANGED <<shape, data, computer, samples, writer>>

\* one iteration of the walker's outer loop, up to the scan it may enter
WalkStep ==
    /\ call.fn = "find_primary_eoi_offset" /\ call.pc = "walk"
    /\ LET pos == call.pos
           c == [call EXCEPT !.at = pos, !.last = "walk", !.from = pos]
           go(n) == Continues([c EXCEPT !.pos = n, !.left = FALSE])
           ends(r) == Returns([c EXCEPT !.left = TRUE], r)
       IN  IF ~(pos < Len(data) - 1) THEN Returns([c EXCEPT !.last = "none"], Err("InvalidJpeg"))
           ELSE IF At(data, pos) # 255 THEN go(pos + 1)
           ELSE
               LET marker == At(data, pos + 1) IN
               IF marker = 255 THEN go(pos + 1)
               ELSE IF marker = 217 THEN ends(Ok(pos))
               ELSE IF marker = 218 THEN
                   IF pos + 3 >= Len(data) THEN ends(Err("InvalidJpeg"))
                   ELSE Continues([c EXCEPT !.pos = pos + 2 + u16_from_be_bytes(At(data, pos + 2), At(data, pos + 3)),
                                            !.pc = "walkscan", !.last = "none"])
               ELSE
                   LET w == WalkMarker(data, marker, pos) IN
                   IF w.kind = "go" THEN go(w.pos) ELSE ends(Err("InvalidJpeg"))
    /\ UNCHANGED <<shape, data, computer, samples, writer>>

\* one iteration of the walker's loop over the entropy-coded data
WalkScanStep ==
    /\ call.fn = "find_primary_eoi_offset" /\ call.pc = "walkscan"
    /\ LET pos == call.pos
           c == [call EXCEPT !.last = "walkscan", !.from = pos]
       IN  IF ~(pos < Len(data) - 1)
           THEN Continues([c EXCEPT !.pc = "walktail", !.last = "none"])
           ELSE
               LET w == WalkScanIter(data, pos) IN
               CASE w.kind = "go" -> Continues([c EXCEPT !.pos = w.pos, !.left = FALSE])
                 [] w.kind = "ret" -> Returns([c EXCEPT !.left = TRUE], Ok(w.pos))
                 [] OTHER -> Continues([c EXCEPT !.pc = "walktail", !.left = TRUE])
    /\ UNCHANGED <<shape, data, computer, samples, writer>>

\* the rest of the iteration of the outer loop that walked a scan: marker is
\* still 0xDA, and the step over a marker follows
WalkTailStep ==
    /\ call.fn = "find_primary_eoi_offset" /\ call.pc = "walktail"
    /\ LET w == WalkMarker(data, 218, call.pos)
           c == [call EXCEPT !.last = "walk", !.from = call.at]
       IN  IF w.kind = "go"
           THEN Continues([c EXCEPT !.pos = w.pos, !.pc = "walk", !.left = FALSE])
           ELSE Returns([c EXCEPT !.left = TRUE], Err("InvalidJpeg"))
    /\ UNCHANGED <<shape, data, computer, samples, writer>>

NextLoops ==
    \/ ParseEnter
    \/ SegmentStep
    \/ PaddingStep
    \/ MarkerStep
    \/ ScanStep
    \/ ScanExit
    \/ WalkEnter
    \/ WalkStep
    \/ WalkScanStep
    \/ WalkTailStep

SpecLoops == InitLoops /\ [][NextLoops]_vars

\* a running call takes its next step: the code is sequential and nothing
\* but itself can hold it up
SpecLoopsFair == SpecLoops /\ WF_vars(NextLoops)

----------------------------------------------------------------------------
(* What a shape says about its buffer *)

\* chunks that are one well-formed segment with a length field
SegmentChunks ==
    {"com", "app0", "exif", "sof", "xmp_hdr", "xmp_plain", "xmp_bad", "xmp_ext",
     "mpf_exact", "mpf_zero", "mpf_far", "mpf_own"}

\* chunks whose length field is below 2, cut short, or beyond the buffer
MalformedChunks == {"sos0", "sos1", "badlen", "trunc", "short"}

\* chunks that are entropy-coded data when they follow an SOS header
ScanChunks == {"x", "stuff", "rst"}

TrailerChunks == {"gm", "gm_scan", "gm_nosof", "gm_xmp"}

InScan(sh, i) ==
    \E j \in 1..(i - 1) : sh[j] = "sos" /\ \A k \in (j + 1)..(i - 1) : sh[k] \in ScanChunks

Count(sh, name) == Cardinality({i \in 1..Len(sh) : sh[i] = name})

\* the number of bytes of the first k chunks of the buffer of sh
RECURSIVE ChunkEnd(_, _)
ChunkEnd(sh, k) == IF k = 0 THEN 0 ELSE ChunkEnd(sh, k - 1) + Len(ChunkBytes(sh[k], 0, 0))

\* A JPEG that starts with SOI, whose segments with a length field are all
\* well formed, with a single SOS, and that ends at its only EOI.  A marker
\* may be preceded by FF fill bytes, as the JPEG syntax allows.
SingleScanJpeg(sh) ==
    /\ Len(sh) >= 2
    /\ sh[1] = "soi"
    /\ sh[Len(sh)] = "eoi"
    /\ Count(sh, "eoi") = 1
    /\ Count(sh, "sos") = 1
    /\ \A i \in 2..(Len(sh) - 1) :
          \/ sh[i] \in SegmentChunks \cup {"sos", "ff"}
          \/ sh[i] \in ScanChunks /\ InScan(sh, i)

\* ... in which, besides, every marker is introduced by exactly one FF
TightJpeg(sh) == SingleScanJpeg(sh) /\ Count(sh, "ff") = 0

----------------------------------------------------------------------------
(* C1: parse / write round trip *)

\* C1 as stated: for every JPEG that starts with SOI, has only well-formed
\* length-bearing segments, a single SOS scan and ends at its primary EOI,
\* writing back what parse returned gives exactly the input bytes.
C1_RoundTripAsStated ==
    (call.fn = "reserialize" /\ SingleScanJpeg(shape)) => ret = Ok(data)

\* C1 (amended): the same, for inputs in which every marker is introduced by
\* exactly one FF (no FF fill bytes before any marker): writing back what
\* parse returned gives exactly the input bytes.
C1_RoundTrip ==
    (call.fn = "reserialize" /\ TightJpeg(shape)) => ret = Ok(data)

C1_Witness ==
    /\ call.fn = "reserialize"
    /\ TightJpeg(shape)
    /\ \E i \in 1..Len(shape) : shape[i] = "stuff"
    /\ \E i \in 1..Len(shape) : shape[i] = "xmp_hdr"
    /\ ret = Ok(data)

----------------------------------------------------------------------------
(* C2: the MPF offset of an encoded file *)

\* the (offset, size) that the last MP entry of an MPF payload stores: the
\* entry is 16 bytes, attribute, size, offset, two dependent-image shorts
StoredEntry(mpf) ==
    LET n == Len(mpf) IN
    [size |-> u32_from_le_bytes(mpf[n - 11], mpf[n - 10], mpf[n - 9], mpf[n - 8]),
     offset |-> u32_from_le_bytes(mpf[n - 7], mpf[n - 6], mpf[n - 5], mpf[n - 4])]

\* C2: in every file create_ultrahdr_jpeg returns, the offset stored in the
\* second MP entry is the position at which the appended gain-map JPEG
\* starts and the stored size is its length, so that
\* output[offset .. offset + size] is the gain-map JPEG.
C2_StoredOffsetIsGainMapStart ==
    (call.fn = "encode_from_components" /\ ret.st = "ok" /\ TightJpeg(shape)) =>
        LET out == ret.val
            mpf == find_mpf_segment(Parse(out).val)
            e == StoredEntry(mpf.val.data)
        IN  /\ Parse(out).st = "ok"
            /\ mpf.some
            /\ e.size = Len(call.gm)
            /\ e.offset = Len(out) - Len(call.gm)
            /\ Slice(out, e.offset, e.offset + e.size) = call.gm

----------------------------------------------------------------------------
(* C3: probe is total *)

\* C3: for every byte sequence probe returns a result; it never panics and
\* never fails.
C3_ProbeTotal == call.fn = "probe" => ret.st = "ok"

----------------------------------------------------------------------------
(* C4: what the encoder composes is recognised *)

EncoderOptionsEnabled == call.options.include_ultrahdr_v1 \/ call.options.include_iso_metadata

----------------------------------------------------------------------------
(* C5: decode and the two routes to the gain map *)

\* a complete primary image with hdrgm metadata and a frame, directly
\* followed by a gain-map JPEG that has a frame: the route by the bytes
\* after the primary EOI is usable
TrailingRouteUsable(sh) ==
    /\ Len(sh) >= 4
    /\ sh[Len(sh)] \in {"gm", "gm_scan"}
    /\ sh[Len(sh) - 1] = "eoi"
    /\ sh[1] = "soi"
    /\ Count(sh, "eoi") = 1
    /\ Count(sh, "xmp_hdr") = 1
    /\ Count(sh, "sof") = 1
    /\ \A i \in 2..(Len(sh) - 2) :
          \/ sh[i] \in SegmentChunks \cup {"sos"}
          \/ sh[i] \in ScanChunks /\ InScan(sh, i)

\* C5: decode locates the gain map whenever one of the two routes is usable;
\* when the MPF route yields no parsable gain-map JPEG it falls back to the
\* JPEG that starts right after the primary EOI.
C5_DecodeFallsBack ==
    (call.fn = "decode" /\ TrailingRouteUsable(shape)) =>
        /\ ret.st = "ok"
        /\ ret.val.gain_map = ChunkBytes(shape[Len(shape)], 0, 0)

----------------------------------------------------------------------------
(* C6: the base image is a prefix of the input *)

BaseOfResult == IF call.fn = "decode" THEN ret.val.sdr_image ELSE ret.val

\* the chunk that is the primary EOI of a shape, 0 when it has none
PrimaryEoi(sh) ==
    LET eois == {i \in 1..Len(sh) : sh[i] = "eoi"} IN
    IF eois = {} THEN 0 ELSE CHOOSE i \in eois : \A j \in eois : i <= j

----------------------------------------------------------------------------
(* C7: the base image and the gain-map metadata *)

\* C7: for every x on which extract_base succeeds,
\* has_gainmap_metadata(extract_base(x)) is false.
C7_BaseHasNoGainMapMetadata ==
    (call.fn = "extract_base" /\ ret.st = "ok") => has_gainmap_metadata(ret.val) = Ok(FALSE)

----------------------------------------------------------------------------
(* C8: what parse returns *)

\* C8: every successful parse has SOI as first segment and EOI as last
\* segment, and every parse that does not succeed fails with InvalidJpeg;
\* in particular an input that ends before an EOI is rejected with
\* InvalidJpeg.  Stated for the inputs without a length field below 2.
C8_ParseWellFormedOrInvalidJpeg ==
    (call.fn = "parse" /\ \A i \in 1..Len(shape) : shape[i] \notin {"sos0", "sos1", "badlen"}) =>
        /\ ret.st = "ok" =>
              /\ ret.val.segments[1].marker.tag = "Soi"
              /\ ret.val.segments[Len(ret.val.segments)].marker.tag = "Eoi"
        /\ ret.st # "ok" => ret = Err("InvalidJpeg")
        /\ Count(shape, "eoi") = 0 => ret = Err("InvalidJpeg")

----------------------------------------------------------------------------
(* C9: a length field below 2 *)

\* C9: when the first marker after SOI carries a length field L < 2, SOS
\* included, parse returns InvalidJpeg and does not panic.
C9_ShortLengthIsInvalidJpeg ==
    (/\ call.fn = "parse"
     /\ Len(shape) >= 2 /\ shape[1] = "soi"
     /\ shape[2] \in {"sos0", "sos1", "badlen"}) =>
        ret = Err("InvalidJpeg")

----------------------------------------------------------------------------
(* C10: inputs that do not start with SOI *)

NotSoiFirst == Len(data) < 2 \/ data[1] # 255 \/ data[2] # 216

\* C10: on an input shorter than 2 bytes or not starting with FF D8, parse,
\* decode, extract_base and extract_metadata fail with InvalidJpeg,
\* has_gainmap_metadata returns false and probe returns the all-default
\* result.
C10_NotSoiFirstIsRejected ==
    NotSoiFirst =>
        /\ call.fn \in {"parse", "decode", "extract_base", "extract_metadata"} =>
               ret = Err("InvalidJpeg")
        /\ call.fn = "has_gainmap_metadata" => ret = Ok(FALSE)
        /\ call.fn = "probe" =>
               /\ ret = Ok(UltraHdrProbeResult_default)
               /\ ~ret.val.has_primary_image /\ ~ret.val.is_valid

C10_Witness ==
    /\ call.fn = "decode"
    /\ Len(data) >= 3
    /\ data[1] = 255 /\ data[2] # 216
    /\ ret = Err("InvalidJpeg")

----------------------------------------------------------------------------
(* C11 *)

\* probe has returned a result
ProbeReturned == call.fn = "probe" /\ ret.st = "ok"

\* C11: on every return of probe, is_valid is the conjunction of the three
\* has_* flags, has_primary_image is true exactly when the buffer starts with
\* FF D8, the gain-map dimensions are 0 x 0 unless has_gain_map is true, and
\* for the buffer FF D8 FF D9 only has_primary_image is true.
C11_ProbeFlagsConsistent ==
    ProbeReturned =>
        /\ ret.val.is_valid = (ret.val.has_primary_image /\ ret.val.has_gain_map
                                   /\ ret.val.has_metadata)
        /\ ret.val.has_primary_image = (Len(data) >= 2 /\ data[1] = 255 /\ data[2] = 216)
        /\ (~ret.val.has_gain_map =>
                ret.val.gain_map_width = 0 /\ ret.val.gain_map_height = 0)
        /\ (data = <<255, 216, 255, 217>> =>
                ret.val = [UltraHdrProbeResult_default EXCEPT !.has_primary_image = TRUE])

\* probe has found a gain map with its dimensions but no metadata
C11_Witness ==
    /\ ProbeReturned
    /\ ret.val.has_gain_map /\ ~ret.val.has_metadata /\ ~ret.val.is_valid
    /\ ret.val.gain_map_width > 0

\* probe has returned for the minimal JPEG FF D8 FF D9
C11_WitnessMinimal == ProbeReturned /\ data = <<255, 216, 255, 217>>

\* probe has returned a valid Ultra HDR result
C11_WitnessValid == ProbeReturned /\ ret.val.is_valid

----------------------------------------------------------------------------
(* C12: files whose primary image carries no gain-map metadata *)

\* a whole file (parsable, with a frame) whose primary image has no XMP
\* segment, or one whose text names neither the hdrgm URI nor "hdrgm:"
PrimaryWithoutMetadata(sh) ==
    /\ sh \in FileShapes
    /\ Count(sh, "xmp_hdr") = 0
    /\ Count(sh, "xmp_bad") = 0

\* C12: for a parsable JPEG with a SOF segment whose primary image has no XMP
\* segment or an XMP text without the hdrgm URI and prefix, decode and
\* extract_metadata return no-gain-map, also when a second JPEG follows the
\* primary EOI.
C12_NoMetadataIsNoGainMap ==
    (call.fn \in {"decode", "extract_metadata"} /\ PrimaryWithoutMetadata(shape))
        => ret = Err("NoGainMap")

\* the same for the files in which no XMP segment follows the primary EOI
C12_NoMetadataAnywhereIsNoGainMap ==
    (/\ call.fn \in {"decode", "extract_metadata"}
     /\ PrimaryWithoutMetadata(shape)
     /\ Count(shape, "gm_xmp") = 0)
        => ret = Err("NoGainMap")

\* decode has answered no-gain-map for a file without XMP that has a second
\* JPEG after the primary EOI
C12_Witness ==
    /\ call.fn = "decode"
    /\ PrimaryWithoutMetadata(shape)
    /\ Count(shape, "xmp_plain") = 0
    /\ shape[Len(shape)] = "gm_scan"
    /\ ret = Err("NoGainMap")

----------------------------------------------------------------------------
(* C14: validate_metadata *)

\* the condition the claim gives for acceptance
AcceptableAsStated(m) ==
    /\ Len(m.gain_map_min) = 3 /\ Len(m.gain_map_max) = 3 /\ Len(m.gamma) = 3
    /\ Len(m.offset_sdr) = 3 /\ Len(m.offset_hdr) = 3
    /\ \A i \in 1..3 : f32_le(m.gain_map_min[i], m.gain_map_max[i])
    /\ \A i \in 1..3 : f32_gt(m.gamma[i], 0)
    /\ f32_le(m.hdr_capacity_min, m.hdr_capacity_max)

\* no value of the record is NaN
NoNaN(m) ==
    /\ \A f \in {"gain_map_min", "gain_map_max", "gamma"} :
           \A i \in 1..Len(m[f]) : ~is_nan(m[f][i])
    /\ ~is_nan(m.hdr_capacity_min) /\ ~is_nan(m.hdr_capacity_max)

\* C14: validate_metadata accepts a record exactly when all five arrays have
\* length 3, gain_map_min[i] <= gain_map_max[i] on every channel, every
\* gamma[i] > 0 and hdr_capacity_min <= hdr_capacity_max; no array is indexed
\* out of range; a min > max or non-positive gamma failure has kind metadata.
C14_AcceptsExactlyValid ==
    call.fn = "validate_metadata" =>
        /\ ret.st # "panic"
        /\ (ret.st = "ok") = AcceptableAsStated(call.metadata)
        /\ (/\ Len(call.metadata.gain_map_min) = 3 /\ Len(call.metadata.gain_map_max) = 3
            /\ Len(call.metadata.gamma) = 3
            /\ Len(call.metadata.offset_sdr) = 3 /\ Len(call.metadata.offset_hdr) = 3
            /\ \/ \E i \in 1..3 : f32_gt(call.metadata.gain_map_min[i],
                                           call.metadata.gain_map_max[i])
               \/ \E i \in 1..3 : f32_le(call.metadata.gamma[i], 0))
               => ret = Err("MetadataError")

\* the same for the records without a NaN
C14_AcceptsExactlyValidNumbers ==
    (call.fn = "validate_metadata" /\ NoNaN(call.metadata)) =>
        /\ ret.st # "panic"
        /\ (ret.st = "ok") = AcceptableAsStated(call.metadata)

\* a record with a NaN gamma has been accepted
C14_NaNAccepted ==
    /\ call.fn = "validate_metadata"
    /\ ret.st = "ok"
    /\ \E i \in 1..3 : is_nan(call.metadata.gamma[i])

----------------------------------------------------------------------------
(* C15: the accumulator *)

\* the log2 ratios of channel i over the samples whose ratio on that channel
\* is positive and finite
ObservedLogs(i) ==
    {RatioLog2(GainRatio(samples[k].sdr[i], samples[k].hdr[i],
                         samples[k].offset_sdr, samples[k].offset_hdr)) :
        k \in {j \in 1..Len(samples) :
                  GainRatio(samples[j].sdr[i], samples[j].hdr[i],
                            samples[j].offset_sdr, samples[j].offset_hdr).kind = "positive"}}

Least(S) == CHOOSE x \in S : \A y \in S : x <= y

Greatest(S) == CHOOSE x \in S : \A y \in S : x >= y

Smaller(a, b) == IF a < b THEN a ELSE b

Larger(a, b) == IF a > b THEN a ELSE b

\* what the claim says compute(t) returns
ComputedAsStated(t) ==
    [version |-> <<49, 46, 48>>,
     base_rendition_is_hdr |-> FALSE,
     gain_map_min |->
        [i \in 1..3 |-> IF ObservedLogs(i) = {} THEN 0
                        ELSE Larger(Least(ObservedLogs(i)) - 1000000, -20000000)],
     gain_map_max |->
        [i \in 1..3 |-> IF ObservedLogs(i) = {} THEN t
                        ELSE Smaller(Greatest(ObservedLogs(i)) + 1000000, t + 10000000)],
     gamma |-> <<10000000, 10000000, 10000000>>,
     offset_sdr |-> <<156250, 156250, 156250>>,
     offset_hdr |-> <<156250, 156250, 156250>>,
     hdr_capacity_min |-> 0,
     hdr_capacity_max |-> t]

\* C15: after any sequence of add_sample calls the accumulator holds, per
\* channel, the least and greatest log2 ratio over exactly the samples whose
\* ratio is positive and finite; compute(t) returns max(min - 0.1, -2.0) and
\* min(max + 0.1, t + 1.0) per channel, [0, t] for a channel without accepted
\* sample, and the fixed fields; compute leaves the accumulator as it was.
C15_AccumulatorAndCompute ==
    /\ \A i \in 1..3 :
          /\ computer.min_ratios[i] =
                (IF ObservedLogs(i) = {} THEN F32.MAX ELSE Least(ObservedLogs(i)))
          /\ computer.max_ratios[i] =
                (IF ObservedLogs(i) = {} THEN F32.MIN ELSE Greatest(ObservedLogs(i)))
    /\ computer.sample_count = Len(samples)
    /\ call.fn = "compute" => ret = Ok(ComputedAsStated(call.target_capacity))

\* compute has answered after two samples: one channel has its minimum
\* clamped to -2.0, one its maximum clamped to t + 1.0, and one channel has
\* accepted nothing
C15_Witness ==
    /\ call.fn = "compute"
    /\ Len(samples) = 2
    /\ \E i \in 1..3 : ObservedLogs(i) = {}
                        /\ ret.val.gain_map_min[i] = 0
                        /\ ret.val.gain_map_max[i] = call.target_capacity
    /\ \E i \in 1..3 : ObservedLogs(i) # {}
                        /\ Least(ObservedLogs(i)) - 1000000 < -20000000
                        /\ ret.val.gain_map_min[i] = -20000000
    /\ \E i \in 1..3 : ObservedLogs(i) # {}
                        /\ Greatest(ObservedLogs(i)) + 1000000 > call.target_capacity + 10000000
                        /\ ret.val.gain_map_max[i] = call.target_capacity + 10000000

\* a sample with a discarded channel next to an accepted one has been added
C15_WitnessDiscard ==
    /\ call.fn = "add_sample"
    /\ Len(samples) = 2
    /\ \E i \in 1..3 : Cardinality(ObservedLogs(i)) = 2
    /\ \E i \in 1..3 : ObservedLogs(i) = {}

----------------------------------------------------------------------------
(* C16 *)

\* the parser has run on the packet a writer made of call.metadata
XmpRoundTripDone == call.fn = "XmpParser_parse"

\* a value the six decimals of the writer hold exactly
SixDecimals(v) == ~is_finite(v) \/ v % 10 = 0

\* text the writer puts into an attribute as it is
PlainText(t) == \A i \in 1..Len(t) : t[i] \notin {34, 38, 39, 60, 62}

\* metadata without NaN, without a seventh decimal, with a plain version
WrittenExactly(m) ==
    /\ PlainText(m.version)
    /\ \A f \in {"gain_map_min", "gain_map_max", "gamma", "offset_sdr", "offset_hdr"} :
          \A i \in 1..3 : SixDecimals(m[f][i]) /\ ~is_nan(m[f][i])
    /\ SixDecimals(m.hdr_capacity_min) /\ ~is_nan(m.hdr_capacity_min)
    /\ SixDecimals(m.hdr_capacity_max) /\ ~is_nan(m.hdr_capacity_max)

\* C16: for every metadata validate_metadata accepts, parsing the packet of
\* either writer gives back metadata equal to the written one in all nine
\* fields.
C16_XmpRoundTrip ==
    XmpRoundTripDone =>
        /\ ret.st = "ok"
        /\ GainMapMetadata_eq(ret.val, call.metadata)

\* C16, on the metadata the writers can put down exactly: the round trip
\* gives the metadata back, three equal channels through one scalar and
\* differing channels in their order.
C16_XmpRoundTripWrittenExactly ==
    (XmpRoundTripDone /\ WrittenExactly(call.metadata)) =>
        /\ ret.st = "ok"
        /\ GainMapMetadata_eq(ret.val, call.metadata)

\* a round trip that loses the seventh decimal of gain_map_max
C16_WitnessPrecision ==
    /\ XmpRoundTripDone
    /\ call.metadata.version = <<49, 46, 48>>
    /\ call.metadata.gain_map_max[1] = 15849625
    /\ ret.st = "ok"
    /\ ret.val.gain_map_max[1] = 15849620

\* a round trip that gives the version 1&0 back as 1&amp;0
C16_WitnessVersion ==
    /\ XmpRoundTripDone
    /\ call.metadata.version = <<49, 38, 48>>
    /\ ret.st = "ok"
    /\ ret.val.version = <<49, 38, 97, 109, 112, 59, 48>>

\* a round trip of differing channels that gives the metadata back
C16_WitnessExact ==
    /\ XmpRoundTripDone
    /\ call.writer = "create_ultrahdr_v1_xmp"
    /\ WrittenExactly(call.metadata)
    /\ call.metadata.gain_map_max = <<10000000, 20000000, 30000000>>
    /\ call.metadata.gamma[2] = F32.INFINITY
    /\ ret.st = "ok"
    /\ GainMapMetadata_eq(ret.val, call.metadata)

----------------------------------------------------------------------------
(* C17 *)

\* decode_gain has returned for the encoded value of 2^call.k
GainRoundTripDone == call.fn = "decode_gain"

\* |decoded - 2^k| in units of 1e-13, for a decoded value of exponent k
\* (2^-24 is 596046 and 2^-25 is 298023 of them)
RoundTripError(decoded, k) ==
    LET a == IF decoded.off < 0 THEN -decoded.off ELSE decoded.off
    IN  IF k < 0 THEN a * 298023 ELSE a * Pow2(k) * 596046

C17_WitnessWide ==
    /\ GainRoundTripDone
    /\ call.max_gain - call.min_gain > 16
    /\ RoundTripError(ret.val, call.k) > 100000000

----------------------------------------------------------------------------
(* C18 *)

\* width x height x channels as declared, or -1 for 2^16 x 2^16 x channels,
\* which no buffer length of the model equals
DeclaredSize(width, height, channels) ==
    IF width = 65536 /\ height = 65536 THEN -1 ELSE width * height * channels

\* ceil(n / scale) for the scale the functions use, at least 1
ScaledDimension(n, gain_map_scale) ==
    LET scale == IF gain_map_scale > 1 THEN gain_map_scale ELSE 1
    IN  (n + scale - 1) \div scale

ComputeCalled == call.fn \in {"compute_gain_map", "compute_gain_map_rgb"}
ApplyCalled == call.fn \in {"apply_gain_map", "apply_gain_map_rgb"}

\* a buffer of the call differs in length from its declared size
SizeMismatch ==
    \/ /\ ComputeCalled
       /\ \/ call.args.sdr_len # DeclaredSize(call.args.width, call.args.height, 3)
          \/ call.args.hdr_len # DeclaredSize(call.args.width, call.args.height, 3)
    \/ /\ ApplyCalled
       /\ \/ call.args.sdr_len # DeclaredSize(call.args.width, call.args.height, 3)
          \/ call.args.gm_len #
                DeclaredSize(call.args.gm_width, call.args.gm_height, call.channels)

\* the call has returned its output in full
FullOutput ==
    /\ ret.st = "ok"
    /\ ComputeCalled =>
          ret.val.gain_map.len =
              ScaledDimension(call.args.width, call.args.gain_map_scale)
              * ScaledDimension(call.args.height, call.args.gain_map_scale) * call.channels
    /\ ApplyCalled => ret.val.len = call.args.width * call.args.height * 3

\* C18: each of the four functions returns invalid-dimensions when a buffer
\* length differs from its declared size, and for every other input returns
\* its output in full, never indexing outside a buffer.
C18_SizeErrorOrFullOutput ==
    (ComputeCalled \/ ApplyCalled) =>
        IF SizeMismatch THEN ret = Err("InvalidDimensions") ELSE FullOutput

\* dimensions whose product is within u32, a gain map of at least one pixel
\* whenever the image has one, and metadata arrays of three channels
PlainGainMapCall ==
    /\ ~(call.args.width = 65536 /\ call.args.height = 65536)
    /\ ApplyCalled =>
          /\ ~(call.args.gm_width = 65536 /\ call.args.gm_height = 65536)
          /\ (call.args.width >= 1 /\ call.args.height >= 1) =>
                (call.args.gm_width >= 1 /\ call.args.gm_height >= 1)
          /\ Len(call.args.metadata.gamma) = 3

\* C18 on such calls: invalid-dimensions for a size mismatch, the output in
\* full otherwise.
C18_SizeErrorOrFullOutputPlain ==
    ((ComputeCalled \/ ApplyCalled) /\ PlainGainMapCall) =>
        IF SizeMismatch THEN ret = Err("InvalidDimensions") ELSE FullOutput

\* apply_gain_map on a 1x1 image and a gain map of no pixel panics
C18_WitnessEmptyGainMap ==
    /\ call.fn = "apply_gain_map"
    /\ call.args.width = 1 /\ call.args.height = 1 /\ call.args.sdr_len = 3
    /\ call.args.gm_width = 0 /\ call.args.gm_height = 0 /\ call.args.gm_len = 0
    /\ Len(call.args.metadata.gamma) = 3
    /\ ret = Panic

\* compute_gain_map on 2^16 x 2^16 and empty buffers panics in either build
C18_WitnessOverflow ==
    /\ call.fn = "compute_gain_map"
    /\ call.args.width = 65536 /\ call.args.height = 65536
    /\ call.args.sdr_len = 0 /\ call.args.hdr_len = 0
    /\ ~call.args.overflow_checks
    /\ ret = Panic

\* a gain map of other dimensions than the image, applied in full
C18_WitnessFull ==
    /\ call.fn = "apply_gain_map_rgb"
    /\ call.args.width = 3 /\ call.args.height = 2
    /\ call.args.gm_width = 2 /\ call.args.gm_height = 1 /\ call.args.gm_len = 6
    /\ ret = Ok([len |-> 18])

----------------------------------------------------------------------------
(* C13 *)

EncodeCalled == call.fn = "encode"

QualityValid(q) == q >= 1 /\ q <= 100

OptionsValid ==
    /\ QualityValid(call.options.base_quality)
    /\ QualityValid(call.options.gain_map_quality)
    /\ ~f32_le(call.options.target_hdr_capacity, 0)

\* the SDR JPEG has a frame of even width and height
EvenFrame == "sof" \in {shape[i] : i \in 1..Len(shape)}

\* the SDR JPEG has a frame
HasFrame == \E i \in 1..Len(shape) : shape[i] \in {"sof", "sof_oddw", "sof_oddh"}

\* the codec has decoded the SDR JPEG to the pixels of its frame, 4x2
DecodedInFull == call.decoded = Ok(Buffer(24, 0))

\* the checks of encode up to the frame, in their order
ChecksBeforeFrame ==
    /\ ~(QualityValid(call.options.base_quality)
         /\ QualityValid(call.options.gain_map_quality)) => ret = Err("InvalidQuality")
    /\ (QualityValid(call.options.base_quality)
        /\ QualityValid(call.options.gain_map_quality)
        /\ f32_le(call.options.target_hdr_capacity, 0)) => ret = Err("InvalidHdrCapacity")

\* the checks of encode from the frame on, in their order
ChecksFromFrame ==
    /\ (OptionsValid /\ Parse(data).st = "ok" /\ HasFrame /\ ~EvenFrame)
          => ret = Err("InvalidDimensions")
    /\ (OptionsValid /\ Parse(data).st = "ok" /\ EvenFrame /\ DecodedInFull
        /\ call.hdr_linear.len # 24) => ret = Err("DimensionMismatch")
    /\ (OptionsValid /\ Parse(data).st = "ok" /\ EvenFrame /\ DecodedInFull
        /\ call.hdr_linear.len = 24 /\ call.codec_encodes
        /\ ~call.options.include_iso_metadata /\ ~call.options.include_ultrahdr_v1)
          => ret = Err("MetadataError")

\* C13: encode applies its checks in order and returns the error of the first
\* that fails, with no output: invalid-quality, invalid-hdr-capacity, then
\* invalid-jpeg for a JPEG that does not parse or has no frame, then
\* invalid-dimensions for an odd width or height, then dimension-mismatch for
\* an HDR buffer of another length than w*h*3, then a metadata error for both
\* include flags false.
C13_ChecksInOrder ==
    EncodeCalled =>
        /\ ChecksBeforeFrame
        /\ (OptionsValid /\ (Parse(data).st # "ok" \/ ~HasFrame)) => ret = Err("InvalidJpeg")
        /\ ChecksFromFrame
        /\ ret.st = "err" => ret.val = <<>>

\* C13 but for the JPEGs on which the parser fails with another kind than
\* invalid-jpeg: there encode returns what the parser returns.
C13_ChecksInOrderParserKinds ==
    EncodeCalled =>
        /\ ChecksBeforeFrame
        /\ (OptionsValid /\ Parse(data).st # "ok") => ret = Parse(data)
        /\ (OptionsValid /\ Parse(data).st = "ok" /\ ~HasFrame) => ret = Err("InvalidJpeg")
        /\ ChecksFromFrame
        /\ ret.st = "err" => ret.val = <<>>

\* encode on a JPEG cut short within a segment, options valid: an I/O error
C13_WitnessIoError ==
    /\ EncodeCalled /\ OptionsValid
    /\ shape = <<"soi", "trunc">>
    /\ ret = Err("IoError")

\* encode passes every check and returns the UltraHDR JPEG
C13_WitnessEncoded ==
    /\ EncodeCalled /\ OptionsValid /\ EvenFrame /\ DecodedInFull
    /\ call.hdr_linear = Buffer(24, 156250)
    /\ ret.st = "ok"
    /\ Len(ret.val) > Len(data)

\* encode fails its last check only: both include flags false
C13_WitnessLastCheck ==
    /\ EncodeCalled /\ OptionsValid /\ EvenFrame /\ DecodedInFull
    /\ call.hdr_linear.len = 24 /\ call.codec_encodes
    /\ ret = Err("MetadataError")

----------------------------------------------------------------------------
(* C19 *)

\* the offsets of the EOI segments the parser records for the buffer
EoiOffsets ==
    LET p == Parse(data)
    IN  IF p.st # "ok" THEN {}
        ELSE {p.val.segments[i].offset :
                i \in {j \in 1..Len(p.val.segments) : p.val.segments[j].marker.tag = "Eoi"}}

\* the least of them
FirstEoiOffset == CHOOSE o \in EoiOffsets : \A q \in EoiOffsets : o <= q

\* extract_base has run: it parses, then cuts the buffer two bytes after the
\* offset find_primary_eoi_offset returns
WalkerRun == call.fn = "extract_base" /\ EoiOffsets # {}

\* C19: on every buffer the parser accepts with an EOI segment, the walker
\* returns the offset of that EOI segment.
C19_WalkerAgreesWithParser ==
    WalkerRun => (ret.st = "ok" /\ Len(ret.val) = FirstEoiOffset + 2)

\* the chunks of the buffer after its leading SOI
Body == IF shape # <<>> /\ shape[1] = "soi" THEN Tail(shape) ELSE shape

\* chunk i of the body lies in the first scan: after the first SOS, with
\* nothing but scan bytes between
InFirstScan(i) ==
    \E j \in 1..(i - 1) :
        /\ Body[j] = "sos"
        /\ \A m \in 1..(j - 1) : Body[m] # "sos"
        /\ \A m \in (j + 1)..(i - 1) : Body[m] \in {"x", "stuff", "rst"}

\* a buffer that, before its first EOI, has no second SOI, and has FF 00 and
\* restart markers inside its first scan only
WalkedAlike ==
    \A i \in 1..Len(Body) :
        (\A j \in 1..(i - 1) : Body[j] # "eoi") =>
            /\ Body[i] # "soi"
            /\ Body[i] \in {"stuff", "rst"} => InFirstScan(i)

\* C19 on such buffers
C19_WalkerAgreesOnPlainFiles ==
    (WalkerRun /\ WalkedAlike) => (ret.st = "ok" /\ Len(ret.val) = FirstEoiOffset + 2)

\* the walker steps over stuffed bytes and a restart marker of a scan and
\* stops at the EOI the parser records
C19_Witness ==
    /\ WalkerRun
    /\ \E i \in 1..Len(shape) : shape[i] = "stuff"
    /\ \E i \in 1..Len(shape) : shape[i] = "rst"
    /\ ret.st = "ok"
    /\ Len(ret.val) = FirstEoiOffset + 2
    /\ Len(ret.val) > 20

----------------------------------------------------------------------------
(* C20 *)

\* where the entropy-coded data that starts at i ends: at the first FF that
\* is followed by neither 00 nor D0..D7, or at the end of the buffer
RECURSIVE ScanEnd(_, _)
ScanEnd(d, i) ==
    IF i >= Len(d) THEN Len(d)
    ELSE IF At(d, i) # 255 THEN ScanEnd(d, i + 1)
    ELSE IF i + 1 >= Len(d) THEN i
    ELSE IF At(d, i + 1) = 0 \/ (At(d, i + 1) >= 208 /\ At(d, i + 1) <= 215)
         THEN ScanEnd(d, i + 2)
    ELSE i

\* parse has returned a parser that has met an SOS
ScanParsed ==
    /\ call.fn = "parse"
    /\ ret.st = "ok"
    /\ \E i \in 1..Len(ret.val.segments) : ret.val.segments[i].marker.tag = "Sos"

\* the number of SOS segments of the parser
SosCount == Cardinality({i \in 1..Len(ret.val.segments) : ret.val.segments[i].marker.tag = "Sos"})

\* the byte after the FF that ends the scan, or -1
ScanEndMarker ==
    LET end == ScanEnd(data, ret.val.scan_offset)
    IN  IF end + 1 < Len(data) THEN At(data, end + 1) ELSE -1

\* what the claim says of the scan that starts at scan_offset: the scan
\* buffer is the input from scan_offset to the end of the scan, stuffed
\* pairs and restart markers included; an FF D9 there is recorded as the EOI
\* segment at its offset; a marker with a length field there is parsed as a
\* segment at its offset
ScanAsClaimed ==
    LET end == ScanEnd(data, ret.val.scan_offset)
        offsets(tag) == {ret.val.segments[i].offset :
                            i \in {j \in 1..Len(ret.val.segments) :
                                      ret.val.segments[j].marker.tag = tag}}
    IN  /\ ret.val.scan_data = Slice(data, ret.val.scan_offset, end)
        /\ ScanEndMarker = 217 => end \in offsets("Eoi")
        /\ ScanEndMarker = 254 => end \in offsets("Com")
        /\ ScanEndMarker = 218 => end \in offsets("Sos")

\* C20: in scan mode FF 00 and FF D0..D7 are kept in the scan buffer and do
\* not end the scan, the first FF D9 is recorded as the EOI segment at its
\* offset, another marker is parsed as a segment, and so the scan buffer is
\* the input from scan_offset up to the marker that ends the scan.
C20_ScanBufferIsInputSlice == ScanParsed => ScanAsClaimed

\* C20 for a buffer with one SOS
C20_ScanBufferIsInputSliceOneScan == (ScanParsed /\ SosCount = 1) => ScanAsClaimed

\* a scan with a stuffed pair and a restart marker, ended by EOI
C20_Witness ==
    /\ ScanParsed /\ SosCount = 1
    /\ ScanEndMarker = 217
    /\ \E i \in 1..(Len(ret.val.scan_data) - 1) :
          ret.val.scan_data[i] = 255 /\ ret.val.scan_data[i + 1] = 0
    /\ \E i \in 1..(Len(ret.val.scan_data) - 1) :
          ret.val.scan_data[i] = 255 /\ ret.val.scan_data[i + 1] = 208
    /\ ScanAsClaimed

\* a scan ended by a marker with a length field, parsed as a segment
C20_WitnessOtherMarker ==
    /\ ScanParsed /\ SosCount = 1
    /\ ScanEndMarker = 254
    /\ Len(ret.val.scan_data) > 0
    /\ ScanAsClaimed

\* two scans: the scan buffer holds the bytes of both, scan_offset is the
\* second's
C20_WitnessTwoScans ==
    /\ ScanParsed /\ SosCount = 2
    /\ Len(ret.val.scan_data) > Len(data) - ret.val.scan_offset


----------------------------------------------------------------------------
(* C21 *)

\* the payload after "MPF\0": the TIFF header and what follows it
Tiff == SubSeq(data, 5, Len(data))

TiffU16(off) == u16_from_le_bytes(At(Tiff, off), At(Tiff, off + 1))

TiffU32(off) ==
    u32_from_le_bytes(At(Tiff, off), At(Tiff, off + 1), At(Tiff, off + 2), At(Tiff, off + 3))

\* where the MP-entry table lies in the payload created: the 32 bytes of
\* its two entries are the last of the payload
MpEntryTable == Len(Tiff) - 32

MpfWritten == call.fn \in {"create_mpf_data", "parse_mpf_for_gainmap"}

\* the IFD at 8 has three entries of 12 bytes: tags B000, B001, B002 at 10,
\* 22 and 34, the next-IFD pointer at 46, the MP-entry table at 50
ThreeEntriesOfTwelve ==
    /\ TiffU32(4) = 8
    /\ TiffU16(8) = 3
    /\ TiffU16(10) = 45056 /\ TiffU16(22) = 45057 /\ TiffU16(34) = 45058
    /\ TiffU32(46) = 0
    /\ MpEntryTable = 8 + 2 + (3 * 12) + 4

\* the value of the B002 entry as written (the last four bytes before the
\* next-IFD pointer) is the position of the MP-entry table
MpEntryValueIsTablePosition == TiffU32(MpEntryTable - 8) = MpEntryTable

\* C21: the payload of create_mpf_data(o, s) has an IFD of exactly three
\* 12-byte entries, the value of its B002 entry is the position of the
\* MP-entry table from the TIFF header, and parse_mpf_for_gainmap returns
\* (o, s) on it.
C21_MpfWriteReadAgree ==
    /\ MpfWritten => (ThreeEntriesOfTwelve /\ MpEntryValueIsTablePosition)
    /\ call.fn = "parse_mpf_for_gainmap" =>
          ret = Some([offset |-> call.gain_map_offset, size |-> call.gain_map_size])

\* what the payload holds: the gain map's size and offset are the second
\* entry of the table at the end of the payload, and the reader finds no
\* B002 entry
C21_PayloadAsWritten ==
    /\ MpfWritten =>
          /\ Len(Tiff) = 84
          /\ TiffU32(MpEntryTable - 8) = 50
          /\ TiffU32(MpEntryTable + 16 + 4) = call.gain_map_size
          /\ TiffU32(MpEntryTable + 16 + 8) = call.gain_map_offset
          /\ TiffU16(34) = 0 /\ TiffU16(36) = 45058
    /\ call.fn = "parse_mpf_for_gainmap" => ret = None

C21_WitnessNone ==
    /\ call.fn = "parse_mpf_for_gainmap"
    /\ call.gain_map_offset = 65536 /\ call.gain_map_size = 255
    /\ ret = None


----------------------------------------------------------------------------
(* C22 *)

\* parse was called on SOI, RST0 and then a marker: the restart marker is
\* met in segment mode, at offset 2
RstInSegmentMode ==
    /\ call.fn = "parse"
    /\ Len(shape) >= 3
    /\ shape[1] = "soi" /\ shape[2] = "rst"
    /\ shape[3] \in {"eoi", "com", "sof", "sos"}

\* C22: in segment mode RST0..RST7 have no length field and no payload, as
\* SOI and EOI: the two bytes after the marker are not taken as a length and
\* the next marker is parsed from the byte right after it.
C22_RstHasNoLength ==
    RstInSegmentMode =>
        /\ ret.st = "ok"
        /\ Len(ret.val.segments) >= 3
        /\ ret.val.segments[2] = JpegSegment(Marker("Other", 208), <<>>, 2)
        /\ ret.val.segments[3].offset = 4
        /\ ret.val.segments[3].marker = from_byte(At(data, 5))

\* what parse does there: the FF and the marker byte that follow are read as
\* a length of at least 0xFF00, which no buffer of the model holds
C22_RstReadWithLength == RstInSegmentMode => ret = Err("IoError")

C22_WitnessIoError ==
    /\ RstInSegmentMode
    /\ shape = <<"soi", "rst", "eoi">>
    /\ ret = Err("IoError")


----------------------------------------------------------------------------
(* C23 *)

\* create_ultrahdr_jpeg has returned a file for an input shaped as a file
ComposedFile ==
    /\ call.fn = "encode_from_components"
    /\ ret.st = "ok"
    /\ shape \in FileShapes

\* the primary image of the file returned: what precedes the gain map
OutputPrimary == SubSeq(ret.val, 1, Len(ret.val) - Len(call.gm))

\* the primary image of the input: the input through its first EOI chunk
InputPrimary == SubSeq(data, 1, ChunkEnd(shape, PrimaryEoi(shape)))

\* marker and payload of the segments of an image that are neither XMP,
\* extended XMP nor MPF, in their order
OtherSegments(image) ==
    LET segs == Parse(image).val.segments
        other(s) == ~is_xmp(s) /\ ~is_extended_xmp(s) /\ ~is_mpf(s)
        kept == SelectSeq(segs, other)
    IN  [i \in 1..Len(kept) |-> <<kept[i].marker, kept[i].data>>]

SegmentCount(image, Kind(_)) ==
    LET segs == Parse(image).val.segments
    IN  Cardinality({i \in 1..Len(segs) : Kind(segs[i])})

OneXmpOneMpf ==
    /\ Parse(OutputPrimary).st = "ok"
    /\ SegmentCount(OutputPrimary, is_xmp) = 1
    /\ SegmentCount(OutputPrimary, is_extended_xmp) = 0
    /\ SegmentCount(OutputPrimary, is_mpf) = 1

RestUnchanged ==
    /\ OtherSegments(OutputPrimary) = OtherSegments(InputPrimary)
    /\ Parse(OutputPrimary).val.scan_data = Parse(InputPrimary).val.scan_data

\* C23: the primary image of every file create_ultrahdr_jpeg returns has
\* exactly one XMP APP1 and exactly one MPF APP2 segment, whatever XMP and
\* MPF segments the input had (an Ultra HDR input included); every other
\* segment and the scan bytes of the input are there unchanged, in order.
C23_OneXmpOneMpfRestUnchanged == ComposedFile => (OneXmpOneMpf /\ RestUnchanged)

\* C23 for an input that ends at its primary EOI or has no scan
C23_OneXmpOneMpfRestUnchangedSingle ==
    (ComposedFile /\ (shape[Len(shape)] = "eoi" \/ Count(shape, "sos") = 0))
        => (OneXmpOneMpf /\ RestUnchanged)

C23_OneXmpOneMpf == ComposedFile => OneXmpOneMpf

C23_Witness ==
    /\ ComposedFile
    /\ shape[Len(shape)] = "eoi"
    /\ Count(shape, "xmp_plain") = 1 /\ Count(shape, "mpf_own") = 1
    /\ Count(shape, "sos") = 1 /\ Count(shape, "exif") = 1
    /\ OneXmpOneMpf /\ RestUnchanged

C23_WitnessUltraHdrInput ==
    /\ ComposedFile
    /\ shape[Len(shape)] = "gm_scan"
    /\ Count(shape, "xmp_hdr") = 1 /\ Count(shape, "mpf_exact") = 1
    /\ Count(shape, "sos") = 1
    /\ OneXmpOneMpf /\ ~RestUnchanged


----------------------------------------------------------------------------
(* C24 *)

\* every segment of the writer that is written with a length field has a
\* payload of at most 65,533 bytes
PayloadsFit ==
    \A i \in 1..Len(writer.segments) :
        has_length(writer.segments[i].marker) =>
            Len(writer.segments[i].data) <= MAX_PAYLOAD

\* out holds, from pos on, the segments segs, each length field being the
\* length of the payload plus two
RECURSIVE LengthsWritten(_, _, _)
LengthsWritten(out, segs, pos) ==
    IF segs = <<>> THEN TRUE
    ELSE
        LET s == Head(segs) IN
        IF s.marker.tag \in {"Soi", "Eoi"} THEN LengthsWritten(out, Tail(segs), pos)
        ELSE IF ~has_length(s.marker) THEN LengthsWritten(out, Tail(segs), pos + 2)
        ELSE /\ pos + 4 <= Len(out)
             /\ At(out, pos + 2) * 256 + At(out, pos + 3) = Len(s.data) + 2
             /\ LengthsWritten(out, Tail(segs),
                               pos + 4 + Len(s.data)
                               + (IF s.marker.tag = "Sos" THEN Len(writer.scan_data) ELSE 0))

\* the length of the payload the last call was to add
PayloadGiven ==
    CASE call.fn = "add_xmp_segment" -> Len(XMP_NAMESPACE) + call.len
      [] call.fn = "add_extended_xmp_segment" ->
            Len(EXT_XMP_NAMESPACE) + Len(Md5Digest) + 8 + call.len
      [] call.fn \in {"add_segment", "insert_segment"} -> call.len
      [] OTHER -> 0

WriteDone == call.fn = "write" /\ ret.st = "ok"

\* C24: for every segment list built through the add and insert functions,
\* write emits for each segment with a length field LEN = payload.len + 2
\* without truncation: a payload longer than 65,533 bytes (XMP: namespace
\* included) is rejected when it is added, the segment list unchanged.
C24_LengthsNeverTruncated ==
    /\ [](WriteDone => LengthsWritten(ret.val, writer.segments, 2))
    /\ [](PayloadGiven > MAX_PAYLOAD => ret.st = "err")
    /\ [][PayloadGiven' > MAX_PAYLOAD => writer' = writer]_vars

\* what holds: add_xmp_segment rejects a packet that does not fit and leaves
\* the segment list as it was, and write emits exact lengths for a list
\* whose payloads fit
C24_XmpRejectedExactWhenFit ==
    /\ []((WriteDone /\ PayloadsFit) => LengthsWritten(ret.val, writer.segments, 2))
    /\ []((call.fn = "add_xmp_segment" /\ PayloadGiven > MAX_PAYLOAD)
              => ret = Err("XmpError"))
    /\ [][(call'.fn = "add_xmp_segment" /\ PayloadGiven' > MAX_PAYLOAD)
              => writer' = writer]_vars

\* an XMP packet of the largest size is in the list and written exactly
C24_WitnessLargestXmp ==
    /\ WriteDone /\ PayloadsFit
    /\ \E i \in 1..Len(writer.segments) : Len(writer.segments[i].data) = MAX_PAYLOAD
    /\ LengthsWritten(ret.val, writer.segments, 2)

C24_WitnessRejected ==
    /\ call.fn = "add_xmp_segment" /\ PayloadGiven = MAX_PAYLOAD + 1
    /\ ret = Err("XmpError")

\* an oversized payload is accepted by add_segment and by
\* add_extended_xmp_segment, and write truncates its length
C24_WitnessTruncated ==
    /\ WriteDone
    /\ \E i \in 1..Len(writer.segments) :
          /\ is_extended_xmp(writer.segments[i])
          /\ Len(writer.segments[i].data) > MAX_PAYLOAD
    /\ ~LengthsWritten(ret.val, writer.segments, 2)


----------------------------------------------------------------------------
(* C25 *)

\* a segment of the leading run: SOI, APP0 or an Exif APP1
Leading(s) == s.marker.tag = "Soi" \/ s.marker.tag = "App0" \/ is_exif(s)

\* the XMP segment add_xmp_segment builds from a packet of n bytes
XmpSegmentOf(n) == JpegSegment(Marker("App1", 0), XMP_NAMESPACE \o Bytes(n, 65), 0)

\* new is old with x inserted after its leading run: everything before x is
\* SOI, APP0 or Exif, what follows x (if anything) is not, and the segments
\* of old are all there in their order
InsertedAfterLeadingRun(old, new, x) ==
    \E k \in 0..Len(old) :
        /\ new = SubSeq(old, 1, k) \o <<x>> \o SubSeq(old, k + 1, Len(old))
        /\ \A j \in 1..k : Leading(old[j])
        /\ k < Len(old) => ~Leading(old[k + 1])

\* C25: add_xmp_segment inserts the new XMP APP1 segment at the first index
\* whose segment is not SOI, APP0 or an Exif APP1 (at the end if there is
\* none); the segments already present keep their relative order.
C25_XmpAfterLeadingRun ==
    [][(call'.fn = "add_xmp_segment" /\ ret'.st = "ok") =>
           InsertedAfterLeadingRun(writer.segments, writer'.segments,
                                   XmpSegmentOf(call'.len))]_vars

\* the XMP segment was put after SOI, APP0 and Exif and before a SOF
C25_Witness ==
    /\ call.fn = "add_xmp_segment" /\ ret.st = "ok"
    /\ Len(writer.segments) >= 5
    /\ writer.segments[1].marker.tag = "Soi"
    /\ writer.segments[2].marker.tag = "App0"
    /\ is_exif(writer.segments[3])
    /\ writer.segments[4] = XmpSegmentOf(call.len)
    /\ writer.segments[5].marker.tag = "Sof0"

\* the XMP segment was put at the end of a list that is a leading run only
C25_WitnessAtEnd ==
    /\ call.fn = "add_xmp_segment" /\ ret.st = "ok"
    /\ Len(writer.segments) >= 2
    /\ writer.segments[Len(writer.segments)] = XmpSegmentOf(call.len)
    /\ \A j \in 1..(Len(writer.segments) - 1) : Leading(writer.segments[j])


----------------------------------------------------------------------------
(* C26 *)

\* the MPF segment add_mpf_segment builds in the model's calls
MpfSegmentOf == JpegSegment(Marker("App2", 0), create_mpf_data(0, 0), 0)

\* the index the claim names: right after the last APP1; without APP1 right
\* after the first APP0; without either right after SOI
MpfPositionAsStated(segs) ==
    LET app1 == {i \in 1..Len(segs) : segs[i].marker.tag = "App1"}
        app0 == FirstIndex({i \in 1..Len(segs) : segs[i].marker.tag = "App0"})
        soi == FirstIndex({i \in 1..Len(segs) : segs[i].marker.tag = "Soi"})
    IN  IF app1 # {} THEN CHOOSE i \in app1 : \A j \in app1 : j <= i
        ELSE IF app0 # 0 THEN app0
        ELSE soi

MpfInsertedAsStated(old, new) ==
    LET k == MpfPositionAsStated(old) IN
    /\ k <= Len(old)
    /\ new = SubSeq(old, 1, k) \o <<MpfSegmentOf>> \o SubSeq(old, k + 1, Len(old))

\* C26: for every writer state add_mpf_segment succeeds and inserts the MPF
\* APP2 segment right after the last APP1, else right after APP0, else right
\* after SOI; the index is a valid insertion index of the list and the
\* segments already present keep their relative order.
C26_MpfInsertedEveryWriter ==
    [][call'.fn = "add_mpf_segment" =>
           /\ ret'.st = "ok"
           /\ MpfInsertedAsStated(writer.segments, writer'.segments)]_vars

\* C26 for a writer whose list holds an APP1 or an APP0 segment or starts
\* with SOI
C26_MpfInsertedUsualWriter ==
    [][(/\ call'.fn = "add_mpf_segment"
        /\ \/ \E i \in 1..Len(writer.segments) :
                 writer.segments[i].marker.tag \in {"App1", "App0"}
           \/ (writer.segments # <<>> /\ writer.segments[1].marker.tag = "Soi")) =>
           /\ ret'.st = "ok"
           /\ MpfInsertedAsStated(writer.segments, writer'.segments)]_vars

\* the MPF segment after the last of two APP1 segments
C26_Witness ==
    /\ call.fn = "add_mpf_segment" /\ ret.st = "ok"
    /\ Len(writer.segments) >= 5
    /\ is_exif(writer.segments[2]) /\ is_xmp(writer.segments[3])
    /\ writer.segments[4] = MpfSegmentOf
    /\ writer.segments[5].marker.tag = "Com"

\* the MPF segment right after SOI
C26_WitnessAfterSoi ==
    /\ call.fn = "add_mpf_segment" /\ ret.st = "ok"
    /\ writer.segments[1].marker.tag = "Soi"
    /\ writer.segments[2] = MpfSegmentOf
    /\ \A i \in 1..Len(writer.segments) : writer.segments[i].marker.tag \notin {"App0", "App1"}

\* add_mpf_segment on the empty writer does not return
C26_WitnessPanic ==
    /\ call.fn = "add_mpf_segment" /\ ret.st = "panic"
    /\ writer.segments = <<>>


----------------------------------------------------------------------------
(* C27 *)

ComputeReturned == call.fn = "compute"

\* C27: for every sample sequence fed to the accumulator and every target
\* capacity t > 0 the metadata compute(t) returns passes validate_metadata;
\* in particular gain_map_min[i] <= gain_map_max[i] for every channel.
C27_ComputedMetadataValid ==
    ComputeReturned =>
        /\ validate_metadata(ret.val).st = "ok"
        /\ \A i \in 1..3 : f32_le(ret.val.gain_map_min[i], ret.val.gain_map_max[i])

\* the logarithms seen on channel i are not all above t + 1.1 and not all
\* below -2.1 (none seen: both hold)
LogsWithinClamps(i) ==
    /\ f32_lt(computer.min_ratios[i], F32.MAX) =>
          computer.min_ratios[i] <= call.target_capacity + 11000000
    /\ f32_gt(computer.max_ratios[i], F32.MIN) =>
          computer.max_ratios[i] >= -21000000

\* C27 for sample sequences whose logarithms reach into the clamped range
C27_ComputedMetadataValidWithinClamps ==
    (ComputeReturned /\ \A i \in 1..3 : LogsWithinClamps(i)) =>
        /\ validate_metadata(ret.val).st = "ok"
        /\ \A i \in 1..3 : f32_le(ret.val.gain_map_min[i], ret.val.gain_map_max[i])

\* every ratio seen on channel 1 was 8 and t = 1: min 2.9, max 2
C27_WitnessAbove ==
    /\ ComputeReturned
    /\ call.target_capacity = 10000000
    /\ computer.min_ratios[1] = 30000000
    /\ ret.val.gain_map_min[1] = 29000000 /\ ret.val.gain_map_max[1] = 20000000
    /\ validate_metadata(ret.val).st = "err"

\* every ratio seen was 1/8: min -2, max -2.9
C27_WitnessBelow ==
    /\ ComputeReturned
    /\ computer.max_ratios[1] = -30000000
    /\ ret.val.gain_map_min[1] = -20000000 /\ ret.val.gain_map_max[1] = -29000000
    /\ validate_metadata(ret.val).st = "err"

C27_WitnessValid ==
    /\ ComputeReturned
    /\ Len(samples) = MaxSamples
    /\ computer.min_ratios[1] = -20000000 /\ computer.max_ratios[1] = 30000000
    /\ validate_metadata(ret.val).st = "ok"


----------------------------------------------------------------------------
(* C28 *)

\* decode was called on an input that probe finds valid
ProbedValid ==
    /\ call.fn = "decode"
    /\ probe(data).st = "ok"
    /\ probe(data).val.is_valid

\* decode succeeded with the dimensions probe reports, and
\* has_gainmap_metadata answers true
DecodeAgreesWithProbe ==
    /\ has_gainmap_metadata(data) = Ok(TRUE)
    /\ ret.st = "ok"
    /\ ret.val.width = probe(data).val.width
    /\ ret.val.height = probe(data).val.height
    /\ ret.val.gain_map_width = probe(data).val.gain_map_width
    /\ ret.val.gain_map_height = probe(data).val.gain_map_height

\* C28: for every input x with probe(x).is_valid, has_gainmap_metadata(x) is
\* true and decode(x) succeeds and returns the base dimensions and the
\* gain-map dimensions probe reported.
C28_ProbeAndDecodeAgree == ProbedValid => DecodeAgreesWithProbe


\* what decode needs beyond what probe asks for: a frame in the primary
\* image, an XMP packet that parses, and, when the MPF entry names a range of
\* the file, a JPEG with a frame in that range
DecodableAsProbed ==
    LET parser == Parse(data).val IN
    /\ get_dimensions(parser).some
    /\ extract_metadata_from_parser(parser).st = "ok"
    /\ MpfRange(data, parser).some =>
          DimensionsByMpf(data, MpfRange(data, parser)).st = "ok"

C28_ProbeAndDecodeAgreeWhenDecodable ==
    (ProbedValid /\ DecodableAsProbed) => DecodeAgreesWithProbe

\* probe and decode agree on a file with a scan, found by the bytes after
\* the primary EOI
C28_WitnessAgree ==
    /\ ProbedValid /\ DecodableAsProbed
    /\ Count(shape, "sos") = 1 /\ Count(shape, "mpf_far") = 1
    /\ shape[Len(shape)] = "gm_scan"
    /\ DecodeAgreesWithProbe
    /\ ret.val.gain_map_width = 2 /\ ret.val.width = 4

\* probe valid, the XMP packet does not parse: decode fails
C28_WitnessBadXmp ==
    /\ ProbedValid
    /\ Count(shape, "xmp_bad") = 1
    /\ ret = Err("MetadataError")

\* probe valid by the bytes after the EOI, the MPF entry names an empty
\* range: decode fails
C28_WitnessMpfRoute ==
    /\ ProbedValid
    /\ Count(shape, "xmp_hdr") = 1 /\ Count(shape, "mpf_zero") = 1
    /\ ret = Err("InvalidJpeg")

\* probe valid, no frame in the primary image: decode fails
C28_WitnessNoFrame ==
    /\ ProbedValid
    /\ shape = <<"soi", "xmp_hdr", "eoi", "gm">>
    /\ probe(data).val.width = 0
    /\ ret = Err("InvalidJpeg")


----------------------------------------------------------------------------
(* C29 *)

\* the arguments the claim is about: every SDR JPEG of the specification is
\* well formed; the gain map has a frame, the options enable a format
RoundTripArguments ==
    /\ call.fn \in {"encode_from_components", "decode"}
    /\ call.gm # GainMapJpegNoSof
    /\ EncoderOptionsEnabled

\* file is a serialized primary image directly followed by the gain map g,
\* and decoded is a successful decode with g as gain map and the primary
\* image as SDR image
RoundTripOf(file, decoded, g) ==
    LET head == SubSeq(file, 1, Len(file) - Len(g)) IN
    /\ file = head \o g
    /\ IsJpegMagic(head)
    /\ SubSeq(head, Len(head) - 1, Len(head)) = <<255, 217>>
    /\ find_primary_eoi_offset(head) = Ok(Len(head) - 2)
    /\ decoded.st = "ok"
    /\ decoded.val.gain_map = g
    /\ decoded.val.sdr_image = head

\* the XMP packet written for the metadata fits one APP1 segment
PacketFits ==
    Len(XMP_NAMESPACE) + Len(IF call.options.include_ultrahdr_v1
                             THEN create_combined_xmp(call.metadata)
                             ELSE create_iso_xmp(call.metadata)) <= MAX_PAYLOAD

C29_WitnessPacketTooLarge ==
    /\ RoundTripArguments /\ ~PacketFits
    /\ call.fn = "encode_from_components"
    /\ ret = Err("XmpError")


----------------------------------------------------------------------------
(* C30 *)

\* the read position of the running call
ReadPosition == IF call.fn = "parse" THEN call.p.cur ELSE call.pos

Returned == call.pc = "done"

\* an iteration that does not end its loop ends past the position it began at
IterationAdvances ==
    (call.last # "none" /\ ~call.left) => ReadPosition > call.from

\* no iteration ends before the position it began at, the one that rewinds
\* the cursor included
IterationNeverGoesBack ==
    call.last # "none" => ReadPosition >= call.from

\* a returned call returned what the loops taken whole return
StepsAgreeWithLoops ==
    Returned =>
        ret = IF call.fn = "parse" THEN Parse(data) ELSE find_primary_eoi_offset(data)

C30_WitnessRewind ==
    /\ call.fn = "parse" /\ call.pc = "scan"
    /\ call.last = "scan" /\ call.left
    /\ ~call.p.in_scan
    /\ call.p.cur = call.from

\* the iteration of the segment loop that held the rewind has ended
C30_WitnessAfterRewind ==
    /\ call.fn = "parse" /\ call.pc = "segment"
    /\ call.last = "segment"
    /\ Count(shape, "sos") = 1
    /\ call.p.cur < Len(data)
    /\ At(data, call.p.cur) = 255
    /\ call.p.cur > call.at

\* the walker has stepped over a segment of length 0
C30_WitnessZeroLength ==
    /\ call.fn = "find_primary_eoi_offset" /\ call.pc = "walk"
    /\ call.last = "walk"
    /\ call.from + 4 <= Len(data)
    /\ Slice(data, call.from, call.from + 4) = <<255, 225, 0, 0>>
    /\ call.pos = call.from + 2

====
